---------------------------- MODULE Spec2Model ----------------------------
(***************************************************************************)
(* Resilient call executor of tg_multitopics_llm_bot                       *)
(* (src/decorators/decorators.py): resilient_request.wrapper together with *)
(* the circuit breaker (_CIRCUIT_STATES, _record_circuit_failure) and the  *)
(* rate limiter (_RATE_LIMITS, _enforce_rate_limit, _apply_backoff); and   *)
(* the streaming accumulator of src/core/bot_controller.py                 *)
(* (_generate_and_stream_response, _update_messages, _finalize) over the   *)
(* chunker of src/utils/formatter.py, and its media group debouncer        *)
(* (_buffer_media_group, _media_group_timer, _finalize_media_group).       *)
(*                                                                         *)
(* Coroutines are cooperative: the code between two suspension points      *)
(* (await of a busy lock, asyncio.sleep, await of the wrapped call) runs   *)
(* atomically, so every action below is one such segment.  time.time() is  *)
(* read in whole seconds (the clock `now`); asyncio.sleep(d) resumes at    *)
(* any clock value >= start + d, which absorbs sub-second jitter.          *)
(***************************************************************************)
EXTENDS Integers, Sequences, FiniteSets, TLC

\* ------------------------------------------------------------------ bounds
NumProcs == 2
NumChats == 2
MaxInvocations == 3
MaxTime == 70
FineTime == 1
MaxRetryAfter == 1
MaxSignals == 1
MaxAcquires == 5
MaxKeyedCalls == 3
MaxPenalties == 2
MaxPenaltySeconds == 2
MaxFragments == 5
MaxStreamTime == 4
MaxChannelFailures == 2
BlockLen == 30
SafeMessageLength == 60
MaxMessageLength == 100
MaxItems == 4
MaxGroupTime == 6
MaxParts == 3
MaxPartBlocks == 4
MaxLines == 4
MaxRawBlocks == 4
MaxTokens == 5
MaxHistoryCalls == 22
MaxAssets == 2
NumUsers == 2
MaxUploads == 3
MaxFlows == 3
MaxPages == 3
NumMessages == 2

\* ------------------------------------------------------- program constants
FailureThreshold == 3
CooldownSeconds == 60
MinUpdateInterval == 3
InitialRetryDelay == 1
HistoryWindow == 5
HistoryLimit == 20
FlushInterval == 2
FlushMinLength == 50
SeparatorLen == 2
DefaultMaxMessageLength == 4096
FenceChars == 8
SafetyMargin == 100
MaxDbRetries == 5
QuietHalfSeconds == 3

Procs == 1..NumProcs
Scopes == {"telegram", "perplexity"}
Keys == Scopes \X (1..NumChats)

\* The decorated functions: the decorator arguments used at the call sites.
Funcs ==
    << [scope |-> "telegram", max_retries |-> 3, use_circuit_breaker |-> FALSE],
       [scope |-> "perplexity", max_retries |-> 2, use_circuit_breaker |-> TRUE] >>

CircuitFuncs == {f \in 1..Len(Funcs) : Funcs[f].use_circuit_breaker}
ChannelFuncs == {f \in 1..Len(Funcs) : Funcs[f].scope = "telegram"}

VARIABLES now, cb, rl, inv, started, signalled, probe

\* The executor's state (the clock apart).
execVars == <<cb, rl, inv, started, signalled, probe>>

\* session: the locals of one _generate_and_stream_response; channel: the
\* messages of the chat by message_id; trace: what the stream has done so far
\* (kept for the properties only).
VARIABLES session, channel, trace

streamVars == <<session, channel, trace>>

\* media_group_buffer: self._media_group_buffer; tasks: the _media_group_timer
\* tasks created so far; groupTrace: the items added and the groups handed on
\* so far (kept for the properties only).
VARIABLES media_group_buffer, tasks, groupTrace

groupVars == <<media_group_buffer, tasks, groupTrace>>

\* formatter: one call of a MessageFormatter method, its argument and its
\* result
VARIABLES formatter

\* db_retry: the locals of the db_lock_retry wrappers in progress; handler:
\* one call of a handler wrapped by operation
VARIABLES db_retry, handler

\* loop: the retry loops of resilient_request.wrapper in progress, without the
\* clock
VARIABLES loop

\* pending_attachments: self._pending_attachments; flow: the locals of the
\* _process_conversation_flow of a user; flowTrace: the uploads and flows so
\* far and the attachments passed to generation (kept for the properties only).
VARIABLES pending_attachments, flow, flowTrace

flowVars == <<pending_attachments, flow, flowTrace>>

\* assets_table: the rows of the table "assets" by primary key; page: the
\* _finalize that is saving its assets; web_pages: the assets each page was
\* finalized with (kept for the properties only).
VARIABLES assets_table, page, web_pages

storeVars == <<assets_table, page, web_pages>>

\* menu_message: the messages of one conversation that carry a keyboard;
\* keyboard_states: the table "keyboard_states" by context id; menuTrace: the
\* keyboard each message had when its menu was opened and the last callback
\* (kept for the properties only).
VARIABLES menu_message, keyboard_states, menuTrace

menuVars == <<menu_message, keyboard_states, menuTrace>>

\* callback: the callback query being handled: the position of its handler
\* inside the retry loop of resilient_request.wrapper, the locals of the loop,
\* and what the handler has done for it so far.
VARIABLES callback

lateVars == <<loop, flowVars, storeVars, menuVars, callback>>

utilVars == <<formatter, db_retry, handler, lateVars>>

\* Everything but lateVars.
earlyVars == <<now, cb, rl, inv, started, signalled, probe, session, channel,
               trace, media_group_buffer, tasks, groupTrace, formatter,
               db_retry, handler>>

\* What the retry loop and the conversation flow leave alone.
notLoop == <<earlyVars, flowVars, storeVars, menuVars, callback>>
notFlow == <<earlyVars, loop, storeVars, menuVars, callback>>
notStore == <<earlyVars, loop, flowVars, menuVars, callback>>
notMenu == <<earlyVars, loop, flowVars, storeVars, callback>>
notCallback == <<earlyVars, loop, flowVars, storeVars, menuVars>>

vars == <<now, cb, rl, inv, started, signalled, probe, session, channel, trace,
          media_group_buffer, tasks, groupTrace, formatter, db_retry, handler,
          loop, pending_attachments, flow, flowTrace, assets_table, page,
          web_pages, menu_message, keyboard_states, menuTrace, callback>>

\* ------------------------------------------------------------ state values
CircuitBreakerState ==
    [failure_count |-> 0, last_failure_time |-> 0, is_open |-> FALSE,
     next_attempt_allowed |-> 0]

RateLimitState ==
    [last_request_time |-> 0, backoff_until |-> 0, history |-> <<>>,
     lock |-> 0, waiters |-> <<>>]

IdleInv ==
    [pc |-> "idle", fn |-> 1, chat |-> 0, retry_count |-> 0, calls |-> 0,
     sleeps |-> 0, signals |-> 0, ra |-> 0, sleepFor |-> 0, wake |-> 0,
     result |-> "none", lastOutcome |-> "none", blocked |-> FALSE,
     startOpen |-> FALSE, overlap |-> FALSE, acquired |-> FALSE]

ScopeOf(r) == Funcs[r.fn].scope
UsesCB(r) == Funcs[r.fn].use_circuit_breaker
MaxRetries(r) == Funcs[r.fn].max_retries

\* One bucket per scope instead of one per recipient.
KeyOfShared(r) == <<ScopeOf(r), 1>>

\* f"{scope}:{chat_id}"
KeyOf(r) == <<ScopeOf(r), r.chat>>

Pow2(n) == IF n <= 0 THEN 1 ELSE 2 ^ n

\* ---------------------------------------------------------- circuit breaker
CircuitBlocks(st, t) == st.is_open /\ t < st.next_attempt_allowed

\* Trips one failure late (> instead of >=).
RecordCircuitFailureLate(st, t) ==
    LET s1 == [st EXCEPT !.failure_count = @ + 1, !.last_failure_time = t]
    IN  IF s1.failure_count > FailureThreshold
        THEN [s1 EXCEPT !.is_open = TRUE,
                        !.next_attempt_allowed = t + CooldownSeconds]
        ELSE s1

\* _record_circuit_failure
RecordCircuitFailure(st, t) ==
    LET s1 == [st EXCEPT !.failure_count = @ + 1, !.last_failure_time = t]
    IN  IF s1.failure_count >= FailureThreshold
        THEN [s1 EXCEPT !.is_open = TRUE,
                        !.next_attempt_allowed = t + CooldownSeconds]
        ELSE s1

\* ------------------------------------------------------------ rate limiter
\* The oldest entries are kept.
LastOldest(s, n) == IF Len(s) <= n THEN s ELSE SubSeq(s, 1, n)

Last(s, n) == IF Len(s) <= n THEN s ELSE SubSeq(s, Len(s) - n + 1, Len(s))

RecentWindow(h) == Last(h, HistoryWindow)

\* avg_interval < MIN_UPDATE_INTERVAL, with avg = span / (len - 1)
NeedsPenalty(h) ==
    /\ Len(h) >= 2
    /\ LET w == RecentWindow(h)
       IN  w[Len(w)] - w[1] < MinUpdateInterval * (Len(w) - 1)

\* MIN_UPDATE_INTERVAL - avg_interval in whole seconds (rounded down)
Penalty(h) ==
    LET w == RecentWindow(h)
        span == w[Len(w)] - w[1]
        n == Len(w) - 1
    IN  MinUpdateInterval - ((span + n - 1) \div n)

RecordRequest(st, t) ==
    [st EXCEPT !.last_request_time = t,
               !.history = Last(Append(@, t), HistoryLimit)]

Release(st) == [st EXCEPT !.lock = 0]

LockFree(st) == st.lock = 0 /\ st.waiters = <<>>

\* _enforce_rate_limit from `stage` on, holding the lock, up to its next
\* suspension point or its end.
EnforceFrom(st, t, stage) ==
    IF stage = "backoff" /\ t < st.backoff_until
    THEN [st |-> st, pc |-> "rl_bsleep", dur |-> st.backoff_until - t]
    ELSE IF stage # "record" /\ NeedsPenalty(st.history)
    THEN [st |-> st, pc |-> "rl_psleep", dur |-> Penalty(st.history)]
    ELSE [st |-> Release(RecordRequest(st, t)), pc |-> "invoke", dur |-> 0]

ApplyBackoff(st, t, seconds) == [st EXCEPT !.backoff_until = t + seconds]

\* ----------------------------------------------------------------- chunker
\* A text is a sequence of blocks, each BlockLen characters of one letter.  A
\* part is a run of blocks, and a message is a sequence of parts joined by
\* "\n\n" (SeparatorLen characters).
Letters == {"a", "b"}

TextLen(text) == BlockLen * Len(text)

RECURSIVE MessageLen(_)
MessageLen(m) ==
    IF m = <<>> THEN 0
    ELSE IF Len(m) = 1 THEN TextLen(m[1])
    ELSE TextLen(m[1]) + SeparatorLen + MessageLen(Tail(m))

\* telegramify(content, max_word_count = Config.SAFE_MESSAGE_LENGTH): text
\* boxes of whole blocks, each no longer than SAFE_MESSAGE_LENGTH.
BlocksPerBox ==
    IF SafeMessageLength \div BlockLen < 1 THEN 1
    ELSE SafeMessageLength \div BlockLen

RECURSIVE ExtractContentStructure(_)
ExtractContentStructure(text) ==
    IF text = <<>> THEN <<>>
    ELSE IF Len(text) <= BlocksPerBox THEN <<text>>
    ELSE <<SubSeq(text, 1, BlocksPerBox)>>
             \o ExtractContentStructure(SubSeq(text, BlocksPerBox + 1, Len(text)))

\* The loop of _merge_into_messages from part i on: current_message is cur,
\* messages is msgs.
RECURSIVE MergeFrom(_, _, _, _)
MergeFrom(parts, i, cur, msgs) ==
    IF i > Len(parts)
    THEN IF cur # <<>> THEN Append(msgs, cur) ELSE msgs
    ELSE LET part == parts[i]
         IN  IF part = <<>> THEN MergeFrom(parts, i + 1, cur, msgs)
             ELSE IF TextLen(part) > MaxMessageLength
             THEN MergeFrom(parts, i + 1, <<>>,
                            Append(IF cur # <<>> THEN Append(msgs, cur) ELSE msgs,
                                   <<part>>))
             ELSE IF cur # <<>> /\ MessageLen(cur) + SeparatorLen + TextLen(part)
                                      <= MaxMessageLength
             THEN MergeFrom(parts, i + 1, Append(cur, part), msgs)
             ELSE IF cur = <<>>
             THEN MergeFrom(parts, i + 1, <<part>>, msgs)
             ELSE MergeFrom(parts, i + 1, <<part>>, Append(msgs, cur))

\* if not string_part: continue (lines 439-440)
NonEmpty(part) == part # <<>>

\* Every non-empty part becomes a message of its own.
MergeEach(string_parts) ==
    LET kept == SelectSeq(string_parts, NonEmpty)
    IN  [n \in 1..Len(kept) |-> <<kept[n]>>]

\* All parts are joined into one message.
MergeAll(string_parts) == <<string_parts>>

MergeIntoMessages(string_parts) == MergeFrom(string_parts, 1, <<>>, <<>>)

\* Blocks of BlockLen characters that hold inline math: "open" is a "$", text
\* and a "{"; "cmd" is LaTeX commands with no argument (\quad six times);
\* "close" is such commands and a "$".  "italic" is what "open" becomes once
\* its math is closed: "_", the text of "open" and "_".
MathBlocks == {"open", "cmd", "close"}

\* The first block of kind `kind` after position i (none: 0).
FirstAfter(text, i, kind) ==
    IF \E j \in (i + 1)..Len(text) : text[j] = kind
    THEN CHOOSE j \in (i + 1)..Len(text) :
            /\ text[j] = kind
            /\ \A k \in (i + 1)..(j - 1) : text[k] # kind
    ELSE 0

\* re.sub(r"\\[a-zA-Z]+", "", latex) and the removal of braces (lines 262-266)
\* leave the text of the math, which is the letters in it.
IsLetter(block) == block \in Letters

\* _preprocess_latex_in_markdown on blocks (lines 295-299): "$" pairs with the
\* next "$" and the math between them becomes _{latex}_; a "$" that is not
\* closed stays as it is, with what follows it.
RECURSIVE PreprocessBlocks(_)
PreprocessBlocks(text) ==
    LET i == FirstAfter(text, 0, "open")
        j == IF i = 0 THEN 0 ELSE FirstAfter(text, i, "close")
    IN  IF j = 0 THEN text
        ELSE SubSeq(text, 1, i - 1) \o <<"italic">>
                \o SelectSeq(SubSeq(text, i + 1, j - 1), IsLetter)
                \o PreprocessBlocks(SubSeq(text, j + 1, Len(text)))

\* format_response_for_telegram, the messages of its result
FormatResponseForTelegram(raw_text) ==
    MergeIntoMessages(ExtractContentStructure(PreprocessBlocks(raw_text)))

\* ---------------------------------------------------- streaming accumulator
\* thinking_msg.message_id
AnchorId == 1

Thinking == << <<"Thinking...">> >>
ErrorText == << <<"Error">> >>

\* The locals of _generate_and_stream_response and of the _update_messages /
\* _finalize it is in: pc is its place (collecting: awaiting the generator;
\* flushing/final: in _update_messages from line 339/345; finalizing: lines
\* 349-358, at `stage`), i the index the flush is at.
InitSession ==
    [pc |-> "collecting", stage |-> "none", accumulated_text |-> <<>>,
     last_update_time |-> 0, sent_messages |-> <<>>, messages |-> <<>>,
     i |-> 0, error_edited |-> FALSE, assets |-> 0, asset_i |-> 0]

\* ------------------------------------------------------ media group buffer
\* message.media_group_id
GroupKeys == {"g1", "g2"}

\* mg_id not in self._media_group_buffer
NoGroup ==
    [present |-> FALSE, files |-> <<>>, caption |-> "", message |-> 0,
     task |-> 0]

\* The entry made for a first item (lines 144-149)
NewGroup(message) ==
    [present |-> TRUE, files |-> <<>>, caption |-> "", message |-> message,
     task |-> 0]

\* ------------------------------------------------------------------- Init
InitExec ==
    /\ now = 0
    /\ cb = [s \in Scopes |-> CircuitBreakerState]
    /\ rl = [k \in Keys |-> RateLimitState]
    /\ inv = [p \in Procs |-> IdleInv]
    /\ started = 0
    /\ signalled = 0
    /\ probe = [s \in Scopes |-> 0]

\* _generate_and_stream_response, lines 299-334: the anchor ("Thinking...")
\* has been sent as message 1 and the generator has been created.
InitStream ==
    /\ session = InitSession
    /\ channel = << [content |-> Thinking, keyboard |-> FALSE] >>
    /\ trace = [fragments |-> <<>>, ops |-> <<>>, chunked |-> 0, widest |-> 0,
                saved |-> 0, failures |-> 0, cause |-> "none",
                persisted |-> <<>>]

\* BotController.__init__ (line 45): no group is buffered, no timer exists
InitGroups ==
    /\ media_group_buffer = [k \in GroupKeys |-> NoGroup]
    /\ tasks = <<>>
    /\ groupTrace = [items |-> <<>>, flushes |-> <<>>]

\* No method of the formatter has been called.
NoCall == [call |-> "none", input |-> <<>>, output |-> <<>>]

\* A db_lock_retry wrapper not called yet (lines 215-216); outcomes and
\* sleeps record the wrapped calls made and the sleeps completed.
IdleDb ==
    [pc |-> "idle", retry_count |-> 0, outcomes |-> <<>>, sleeps |-> 0,
     result |-> "none"]

\* An operation wrapper not called yet.
IdleHandler ==
    [pc |-> "idle", event |-> "none", data |-> "none", notify_user |-> FALSE,
     validate |-> FALSE, accessible |-> FALSE, invoked |-> FALSE,
     raised |-> FALSE, notified |-> 0, answered |-> 0, result |-> "none"]

\* A wrapper not in its retry loop.  plain_calls counts the calls that do not
\* follow a retry-after signal; signalled: a call of this invocation has
\* raised one.
IdleLoop ==
    [pc |-> "idle", fn |-> 1, retry_count |-> 0, plain_calls |-> 0,
     signalled |-> FALSE, result |-> "none"]

InitUtil ==
    /\ formatter = NoCall
    /\ db_retry = [p \in Procs |-> IdleDb]
    /\ handler = IdleHandler
    /\ loop = [p \in Procs |-> IdleLoop]

\* The locals of a conversation flow that is not running.
IdleFlow == [pc |-> "idle", pending |-> <<>>, all_attachments |-> <<>>]

\* BotController.__init__ (line 44): nothing is pending
InitFlow ==
    /\ pending_attachments = [u \in 1..NumUsers |-> <<>>]
    /\ flow = [u \in 1..NumUsers |-> IdleFlow]
    /\ flowTrace = [uploads |-> 0, flows |-> 0, generated |-> <<>>]

\* No _finalize is saving assets.
NoPage == [page_id |-> 0, assets |-> <<>>, i |-> 0]

\* The table "assets" is empty and no page has been finalized.
InitStore ==
    /\ assets_table = [asset_id \in 1..MaxAssets |-> [present |-> FALSE]]
    /\ page = NoPage
    /\ web_pages = <<>>

\* The answers of one conversation, by page_id; the conversation's short_id
\* is context id 0.
Messages == 1..NumMessages
ShortId == 0

\* InlineKeyboardButton(text, url, callback_data); <<>> is None
Button(text, url, callback_data) ==
    [text |-> text, url |-> url, callback_data |-> callback_data]

\* _create_keyboard (lines 461-497) for a page with assets, one button a row
CreateKeyboard(page_id) ==
    << Button("Web View", <<"answer", page_id>>, <<>>),
       Button("Assets", <<>>, <<"assets_menu", page_id>>),
       Button("Conversation Settings", <<>>, <<"settings", "c", "open", ShortId>>) >>

\* Every answer carries the keyboard of its page; no keyboard state is saved.
InitMenu ==
    /\ menu_message = [m \in Messages |->
                    [exists |-> TRUE, reply_markup |-> CreateKeyboard(m)]]
    /\ keyboard_states = [context_id \in {ShortId} \cup Messages |-> <<>>]
    /\ menuTrace = [opened |-> [m \in Messages |-> <<>>],
                    last |-> <<"none", 0>>]

\* No callback query is being handled.
IdleCallback ==
    [kind |-> "none", pc |-> "idle", retry_count |-> 0, signals |-> 0,
     calls |-> 0, documents |-> 0, updates |-> 0, result |-> "none"]

InitCallback == callback = IdleCallback

Init ==
    /\ InitExec /\ InitStream /\ InitGroups /\ InitUtil /\ InitFlow
    /\ InitStore /\ InitMenu /\ InitCallback

\* -------------------------------------------------------- wrapper segments
\* History fields of an invocation, kept for the properties only:
\*   blocked   - it invoked the wrapped call, or completed a rate-limit
\*               acquire, while its circuit was open and cooling down;
\*   startOpen - it started while its circuit was open and cooling down;
\*   overlap   - it invoked the wrapped call while another invocation's
\*               half-open probe on its scope was undecided;
\*   acquired  - its _enforce_rate_limit has completed.
\* probe[s] is the invocation that found circuit s open with the cooldown
\* elapsed (line 81), until the first outcome of its wrapped call.

\* `await func(*args, **kwargs)` (line 108): the wrapped call is invoked and
\* the coroutine suspends until the call returns or raises.
Called(p, r, cbs, prb, t) ==
    [r EXCEPT !.pc = "in_call", !.calls = @ + 1, !.sleepFor = 0, !.wake = 0,
              !.blocked = @ \/ (UsesCB(r) /\ CircuitBlocks(cbs[ScopeOf(r)], t)),
              !.overlap = @ \/ (UsesCB(r) /\ prb[ScopeOf(r)] \notin {0, p})]

\* _enforce_rate_limit at `stage` on the state st of the key, whose lock p
\* holds, run on to its next suspension point or through its end into the retry
\* loop (lines 262-287, 103-108).
ContinueRateLimit(p, r, st, stage) ==
    LET e == EnforceFrom(st, now, stage)
    IN  /\ rl' = [rl EXCEPT ![KeyOf(r)] = e.st]
        /\ inv' = [inv EXCEPT ![p] =
              IF e.pc = "invoke"
              THEN Called(p, [r EXCEPT !.acquired = TRUE,
                                       !.blocked = @ \/ (UsesCB(r) /\
                                  CircuitBlocks(cb'[ScopeOf(r)], now))],
                          cb', probe', now)
              ELSE [r EXCEPT !.pc = e.pc, !.sleepFor = e.dur,
                             !.wake = now + e.dur]]

\* wrapper, lines 69-108: circuit check, recipient key, rate limit, first call
Start(p, f, c) ==
    /\ inv[p].pc = "idle"
    /\ started' = started + 1
    /\ UNCHANGED <<now, signalled>>
    /\ LET r == [IdleInv EXCEPT !.fn = f, !.chat = c]
           s == ScopeOf(r)
           k == KeyOf(r)
       IN  IF UsesCB(r) /\ cb[s].is_open /\ now < cb[s].next_attempt_allowed
           THEN /\ inv' = [inv EXCEPT ![p] =
                         [r EXCEPT !.pc = "done", !.result = "unavailable",
                                   !.startOpen = TRUE]]
                /\ UNCHANGED <<cb, rl, probe>>
           ELSE /\ IF UsesCB(r) /\ cb[s].is_open
                   THEN /\ cb' = [cb EXCEPT ![s].is_open = FALSE]
                        /\ probe' = [probe EXCEPT ![s] = p]
                   ELSE UNCHANGED <<cb, probe>>
                /\ IF c # 0 /\ s = "telegram"
                   THEN IF LockFree(rl[k])
                        THEN ContinueRateLimit(p, r, [rl[k] EXCEPT !.lock = p],
                                               "backoff")
                        ELSE /\ rl' = [rl EXCEPT ![k].waiters = Append(@, p)]
                             /\ inv' = [inv EXCEPT ![p] =
                                           [r EXCEPT !.pc = "rl_lock"]]
                   ELSE /\ inv' = [inv EXCEPT ![p] =
                                     Called(p, r, cb', probe', now)]
                        /\ UNCHANGED rl

\* `async with state.lock` of _enforce_rate_limit is granted (line 262)
LockGranted(p) ==
    LET k == KeyOf(inv[p])
    IN  /\ inv[p].pc = "rl_lock"
        /\ rl[k].lock = 0
        /\ rl[k].waiters # <<>> /\ Head(rl[k].waiters) = p
        /\ UNCHANGED <<now, cb, started, signalled, probe>>
        /\ ContinueRateLimit(p, inv[p],
                             [rl[k] EXCEPT !.lock = p, !.waiters = Tail(@)],
                             "backoff")

\* asyncio.sleep(wait_time) of the backoff window returns (lines 268-269)
WakeBackoff(p) ==
    /\ inv[p].pc = "rl_bsleep"
    /\ now >= inv[p].wake
    /\ UNCHANGED <<now, cb, started, signalled, probe>>
    /\ ContinueRateLimit(p, inv[p], rl[KeyOf(inv[p])], "hist")

\* asyncio.sleep(penalty) returns (line 280)
WakePenalty(p) ==
    /\ inv[p].pc = "rl_psleep"
    /\ now >= inv[p].wake
    /\ UNCHANGED <<now, cb, started, signalled, probe>>
    /\ ContinueRateLimit(p, inv[p], rl[KeyOf(inv[p])], "record")

\* The first outcome of the probe's wrapped call decides the probe.
Decided(p) ==
    [s \in Scopes |-> IF probe[s] = p /\ s = ScopeOf(inv[p]) THEN 0 ELSE probe[s]]

\* The wrapped call returns (lines 108-113)
ReturnOk(p) ==
    /\ inv[p].pc = "in_call"
    /\ cb' = IF UsesCB(inv[p])
             THEN [cb EXCEPT ![ScopeOf(inv[p])] = CircuitBreakerState]
             ELSE cb
    /\ probe' = Decided(p)
    /\ inv' = [inv EXCEPT ![p].pc = "done", ![p].result = "ok",
                          ![p].lastOutcome = "ok"]
    /\ UNCHANGED <<now, rl, started, signalled>>

\* Sleeps retry_after instead of retry_after + 1.
RetryAfterSleepShort(r, t) ==
    [r EXCEPT !.pc = "ra_sleep", !.sleepFor = r.ra, !.wake = t + r.ra]

\* asyncio.sleep(wait_time) of the retry-after branch begins (line 122)
RetryAfterSleep(r, t) ==
    [r EXCEPT !.pc = "ra_sleep", !.sleepFor = r.ra + 1, !.wake = t + r.ra + 1]

\* The wrapped call raises TelegramRetryAfter(retry_after = n) (lines 115-123)
ReturnRetryAfter(p, n) ==
    /\ inv[p].pc = "in_call"
    /\ signalled' = signalled + 1
    /\ UNCHANGED <<now, cb, started, probe>>
    /\ LET r == [inv[p] EXCEPT !.signals = @ + 1, !.ra = n,
                               !.lastOutcome = "retry_after"]
           k == KeyOf(r)
       IN  IF r.chat # 0
           THEN IF LockFree(rl[k])
                THEN /\ rl' = [rl EXCEPT ![k] = ApplyBackoff(@, now, n + 1)]
                     /\ inv' = [inv EXCEPT ![p] = RetryAfterSleep(r, now)]
                ELSE /\ rl' = [rl EXCEPT ![k].waiters = Append(@, p)]
                     /\ inv' = [inv EXCEPT ![p] = [r EXCEPT !.pc = "pen_lock"]]
           ELSE /\ inv' = [inv EXCEPT ![p] = RetryAfterSleep(r, now)]
                /\ UNCHANGED rl

\* `async with state.lock` of _apply_backoff is granted (lines 293-294)
PenaltyLockGranted(p) ==
    LET k == KeyOf(inv[p])
    IN  /\ inv[p].pc = "pen_lock"
        /\ rl[k].lock = 0
        /\ rl[k].waiters # <<>> /\ Head(rl[k].waiters) = p
        /\ rl' = [rl EXCEPT ![k] =
                     ApplyBackoff([@ EXCEPT !.waiters = Tail(@)], now,
                                  inv[p].ra + 1)]
        /\ inv' = [inv EXCEPT ![p] = RetryAfterSleep(@, now)]
        /\ UNCHANGED <<now, cb, started, signalled, probe>>

\* asyncio.sleep(wait_time) returns and the loop continues (lines 122-123, 108)
WakeRetryAfter(p) ==
    /\ inv[p].pc = "ra_sleep"
    /\ now >= inv[p].wake
    /\ inv' = [inv EXCEPT ![p] = Called(p, @, cb, probe, now)]
    /\ UNCHANGED <<now, cb, rl, started, signalled, probe>>

\* "message is not modified" raised like any other bad request.
ReturnNotModifiedRaised(p) ==
    /\ inv[p].pc = "in_call"
    /\ probe' = Decided(p)
    /\ inv' = [inv EXCEPT ![p].pc = "done", ![p].result = "bad_request",
                          ![p].lastOutcome = "not_modified"]
    /\ UNCHANGED <<now, cb, rl, started, signalled>>

\* The wrapped call raises TelegramBadRequest "message is not modified"
\* (lines 125-127)
ReturnNotModified(p) ==
    /\ inv[p].pc = "in_call"
    /\ probe' = Decided(p)
    /\ inv' = [inv EXCEPT ![p].pc = "done", ![p].result = "true",
                          ![p].lastOutcome = "not_modified"]
    /\ UNCHANGED <<now, cb, rl, started, signalled>>

\* The wrapped call raises another TelegramBadRequest (lines 125-129)
ReturnBadRequest(p) ==
    /\ inv[p].pc = "in_call"
    /\ probe' = Decided(p)
    /\ inv' = [inv EXCEPT ![p].pc = "done", ![p].result = "bad_request",
                          ![p].lastOutcome = "bad_request"]
    /\ UNCHANGED <<now, cb, rl, started, signalled>>

\* backoff * 2 ** (retry_count - 1) + uniform(0, 0.5), in whole seconds
SleepTime(retry_count) == InitialRetryDelay * Pow2(retry_count - 1)

\* Gives up one attempt early (>= instead of >).
ExhaustedEarly(retry_count, max_retries) == retry_count >= max_retries

\* retry_count > max_retries (line 137)
Exhausted(retry_count, max_retries) == retry_count > max_retries

\* The wrapped call raises any other exception (lines 131-149)
ReturnFailure(p) ==
    /\ inv[p].pc = "in_call"
    /\ cb' = IF UsesCB(inv[p])
             THEN [cb EXCEPT ![ScopeOf(inv[p])] = RecordCircuitFailure(@, now)]
             ELSE cb
    /\ probe' = Decided(p)
    /\ LET r == [inv[p] EXCEPT !.retry_count = @ + 1, !.lastOutcome = "generic"]
       IN  inv' = [inv EXCEPT ![p] =
              IF Exhausted(r.retry_count, MaxRetries(r))
              THEN [r EXCEPT !.pc = "done", !.result = "error"]
              ELSE [r EXCEPT !.pc = "retry_sleep", !.sleeps = @ + 1,
                             !.sleepFor = SleepTime(r.retry_count),
                             !.wake = now + SleepTime(r.retry_count)]]
    /\ UNCHANGED <<now, rl, started, signalled>>

\* asyncio.sleep(sleep_time) returns and the loop continues (lines 149, 108)
WakeRetry(p) ==
    /\ inv[p].pc = "retry_sleep"
    /\ now >= inv[p].wake
    /\ inv' = [inv EXCEPT ![p] = Called(p, @, cb, probe, now)]
    /\ UNCHANGED <<now, cb, rl, started, signalled, probe>>

\* The caller has the result or the exception of the invocation.
Finish(p) ==
    /\ inv[p].pc = "done"
    /\ inv' = [inv EXCEPT ![p] = IdleInv]
    /\ UNCHANGED <<now, cb, rl, started, signalled, probe>>

\* The instants at which something waiting for the clock becomes able to go on.
Sleeping == {"rl_bsleep", "rl_psleep", "ra_sleep", "retry_sleep"}

Deadlines ==
    {inv[p].wake : p \in {q \in Procs : inv[q].pc \in Sleeping}}
    \cup {cb[s].next_attempt_allowed : s \in {x \in Scopes : cb[x].is_open}}
    \cup {rl[k].backoff_until : k \in Keys}

Min(S) == CHOOSE x \in S : \A y \in S : x <= y

\* time.time() advances: second by second up to FineTime, and beyond that to
\* the next instant at which a sleep, a backoff window or a cooldown ends.
\* The event loop resumes a coroutine whose sleep is over, and hands a result
\* to its caller, before the clock moves on.
Advance ==
    /\ \A p \in Procs : inv[p].pc # "done" /\ (inv[p].pc \in Sleeping => now < inv[p].wake)
    /\ \E t \in {now + 1 : x \in {y \in {now} : y < FineTime}}
             \cup {Min({d \in Deadlines : d > now}) :
                      x \in {y \in {now} : \E d \in Deadlines : d > now}} :
          /\ t <= MaxTime
          /\ now' = t
    /\ UNCHANGED <<cb, rl, inv, started, signalled, probe>>

\* Invocations of the circuit-broken provider calls (no recipient argument).
Next ==
    \/ \E p \in Procs, f \in CircuitFuncs :
          started < MaxInvocations /\ Start(p, f, 0) /\ UNCHANGED <<streamVars, groupVars, utilVars>>
    \/ \E p \in Procs :
          ReturnOk(p) /\ UNCHANGED <<streamVars, groupVars, utilVars>>
    \/ \E p \in Procs, n \in 1..MaxRetryAfter :
          signalled < MaxSignals /\ ReturnRetryAfter(p, n) /\ UNCHANGED <<streamVars, groupVars, utilVars>>
    \/ \E p \in Procs :
          WakeRetryAfter(p) /\ UNCHANGED <<streamVars, groupVars, utilVars>>
    \/ \E p \in Procs :
          ReturnNotModified(p) /\ UNCHANGED <<streamVars, groupVars, utilVars>>
    \/ \E p \in Procs :
          ReturnBadRequest(p) /\ UNCHANGED <<streamVars, groupVars, utilVars>>
    \/ \E p \in Procs :
          ReturnFailure(p) /\ UNCHANGED <<streamVars, groupVars, utilVars>>
    \/ \E p \in Procs :
          WakeRetry(p) /\ UNCHANGED <<streamVars, groupVars, utilVars>>
    \/ \E p \in Procs :
          Finish(p) /\ UNCHANGED <<streamVars, groupVars, utilVars>>
    \/ Advance /\ UNCHANGED <<streamVars, groupVars, utilVars>>

Spec == Init /\ [][Next]_vars

\* Invocations of the channel calls, each with a recipient (chat_id).
NextRate ==
    \/ \E p \in Procs, f \in ChannelFuncs, c \in 1..NumChats :
          started < MaxAcquires /\ Start(p, f, c) /\ UNCHANGED <<streamVars, groupVars, utilVars>>
    \/ \E p \in Procs :
          LockGranted(p) /\ UNCHANGED <<streamVars, groupVars, utilVars>>
    \/ \E p \in Procs :
          WakeBackoff(p) /\ UNCHANGED <<streamVars, groupVars, utilVars>>
    \/ \E p \in Procs :
          WakePenalty(p) /\ UNCHANGED <<streamVars, groupVars, utilVars>>
    \/ \E p \in Procs :
          ReturnOk(p) /\ UNCHANGED <<streamVars, groupVars, utilVars>>
    \/ \E p \in Procs, n \in 1..MaxRetryAfter :
          signalled < MaxSignals /\ ReturnRetryAfter(p, n) /\ UNCHANGED <<streamVars, groupVars, utilVars>>
    \/ \E p \in Procs :
          PenaltyLockGranted(p) /\ UNCHANGED <<streamVars, groupVars, utilVars>>
    \/ \E p \in Procs :
          WakeRetryAfter(p) /\ UNCHANGED <<streamVars, groupVars, utilVars>>
    \/ \E p \in Procs :
          Finish(p) /\ UNCHANGED <<streamVars, groupVars, utilVars>>
    \/ Advance /\ UNCHANGED <<streamVars, groupVars, utilVars>>

SpecRate == Init /\ [][NextRate]_vars

\* One caller after the other on one recipient, long enough for the history
\* of the key to pass HistoryLimit entries.  The caller sleeps through the
\* backoff window it opens, so no call of it ever waits for one.
NextHistory ==
    \/ \E f \in ChannelFuncs :
          started < MaxHistoryCalls /\ Start(1, f, 1) /\ UNCHANGED <<streamVars, groupVars, utilVars>>
    \/ WakePenalty(1) /\ UNCHANGED <<streamVars, groupVars, utilVars>>
    \/ ReturnOk(1) /\ UNCHANGED <<streamVars, groupVars, utilVars>>
    \/ \E n \in 1..MaxRetryAfter :
          signalled < MaxSignals /\ ReturnRetryAfter(1, n) /\ UNCHANGED <<streamVars, groupVars, utilVars>>
    \/ WakeRetryAfter(1) /\ UNCHANGED <<streamVars, groupVars, utilVars>>
    \/ Finish(1) /\ UNCHANGED <<streamVars, groupVars, utilVars>>
    \/ Advance /\ UNCHANGED <<streamVars, groupVars, utilVars>>

SpecHistory == Init /\ [][NextHistory]_vars

\* Invocations of any decorated function with a recipient (chat_id) among its
\* arguments, answered by a success or by retry-after signals of any length.
NextKeyed ==
    \/ \E p \in Procs, f \in 1..Len(Funcs), c \in 1..NumChats :
          started < MaxKeyedCalls /\ Start(p, f, c) /\ UNCHANGED <<streamVars, groupVars, utilVars>>
    \/ \E p \in Procs :
          LockGranted(p) /\ UNCHANGED <<streamVars, groupVars, utilVars>>
    \/ \E p \in Procs :
          WakeBackoff(p) /\ UNCHANGED <<streamVars, groupVars, utilVars>>
    \/ \E p \in Procs :
          WakePenalty(p) /\ UNCHANGED <<streamVars, groupVars, utilVars>>
    \/ \E p \in Procs :
          ReturnOk(p) /\ UNCHANGED <<streamVars, groupVars, utilVars>>
    \/ \E p \in Procs, n \in 1..MaxPenaltySeconds :
          signalled < MaxPenalties /\ ReturnRetryAfter(p, n) /\ UNCHANGED <<streamVars, groupVars, utilVars>>
    \/ \E p \in Procs :
          PenaltyLockGranted(p) /\ UNCHANGED <<streamVars, groupVars, utilVars>>
    \/ \E p \in Procs :
          WakeRetryAfter(p) /\ UNCHANGED <<streamVars, groupVars, utilVars>>
    \/ \E p \in Procs :
          Finish(p) /\ UNCHANGED <<streamVars, groupVars, utilVars>>
    \/ Advance /\ UNCHANGED <<streamVars, groupVars, utilVars>>

SpecKeyed == Init /\ [][NextKeyed]_vars

\* ------------------------------------------------- stream: the drive loop
\* One outbound channel operation of the stream, as the properties see it.
Op(kind, index, message_id, content, keyboard, ok) ==
    [kind |-> kind, index |-> index, message_id |-> message_id,
     content |-> content, keyboard |-> keyboard, ok |-> ok,
     phase |-> session.pc]

Logged(op) ==
    [trace EXCEPT !.ops = Append(@, op),
                  !.failures = IF op.ok THEN @ ELSE @ + 1]

\* A flush has chunked the text into `messages`.
Flushed(tr, messages) ==
    [tr EXCEPT !.chunked = @ + 1,
               !.widest = IF Len(messages) > @ THEN Len(messages) ELSE @]

\* except Exception (line 360): the stream is errored
Errored(cause) ==
    /\ session' = [session EXCEPT !.pc = "errored", !.stage = "none"]
    /\ trace' = [trace EXCEPT !.cause = cause]
    /\ UNCHANGED channel

\* Fragments put in front of the text instead of behind it.
AccumulateFront(text, chunk) == <<chunk>> \o text

\* accumulated_text += chunk (line 337)
Accumulate(text, chunk) == text \o <<chunk>>

\* _update_messages up to its loop (lines 377-381): the text is chunked
BeginFlush(ses, pc) ==
    [ses EXCEPT !.pc = pc, !.i = 0,
                !.messages = FormatResponseForTelegram(ses.accumulated_text)]

\* conversation.add_message(...); await save_conversation (lines 349-354)
BeginFinalizing(ses) == [ses EXCEPT !.pc = "finalizing", !.stage = "save"]

\* The fragments the generator yields: blocks of a letter, and at most one
\* span of inline math, which is "open", commands and "close" in this order.
Fragments == Letters \cup MathBlocks

MathPending(text) ==
    FirstAfter(text, 0, "open") # 0 /\ FirstAfter(text, 0, "close") = 0

Yields(text, chunk) ==
    \/ chunk \in Letters /\ ~MathPending(text)
    \/ chunk = "open" /\ FirstAfter(text, 0, "open") = 0
    \/ chunk \in {"cmd", "close"} /\ MathPending(text)

\* The generator yields a fragment (lines 336-341)
Fragment(chunk) ==
    /\ session.pc = "collecting"
    /\ Yields(session.accumulated_text, chunk)
    /\ LET text == Accumulate(session.accumulated_text, chunk)
           ses == [session EXCEPT !.accumulated_text = text]
       IN  IF now - session.last_update_time >= FlushInterval
                /\ TextLen(text) > FlushMinLength
           THEN /\ session' = BeginFlush(ses, "flushing")
                /\ trace' = Flushed([trace EXCEPT !.fragments = Append(@, chunk)],
                                    session'.messages)
           ELSE /\ session' = ses
                /\ trace' = [trace EXCEPT !.fragments = Append(@, chunk)]
    /\ UNCHANGED <<now, channel, execVars>>

\* The generator is exhausted (lines 336, 344-354)
Exhaust ==
    /\ session.pc = "collecting"
    /\ IF session.accumulated_text # <<>>
       THEN /\ session' = BeginFlush(session, "final")
            /\ trace' = Flushed(trace, session'.messages)
       ELSE /\ session' = BeginFinalizing(session)
            /\ trace' = [trace EXCEPT !.saved = @ + 1]
    /\ UNCHANGED <<now, channel, execVars>>

\* The generator raises (line 336)
GeneratorRaises ==
    /\ session.pc = "collecting"
    /\ Errored("generator")
    /\ UNCHANGED <<now, execVars>>

\* ------------------------------------------------ stream: _update_messages
\* Every content counts as changed.
DiffersAlways(msg_content, last_content) == TRUE

\* msg_content != last_content (lines 383, 397)
Differs(msg_content, last_content) == msg_content # last_content

\* Every index is recorded with the handle of the anchor.
RecordedAnchor(sm, i, message_id, content) ==
    (i :> [message_id |-> AnchorId, content |-> content]) @@ sm

\* sent_messages[i] = (message_id, msg_content) (lines 390, 405, 416)
Recorded(sm, i, message_id, content) ==
    (i :> [message_id |-> message_id, content |-> content]) @@ sm

\* await self._edit_message_text(...) inside try / except: pass
EditSegment(i, message_id, content, ok) ==
    /\ trace' = Logged(Op("edit", i, message_id, content, FALSE, ok))
    /\ IF ok
       THEN /\ channel' = [channel EXCEPT ![message_id].content = content]
            /\ session' = [session EXCEPT !.i = i + 1,
                   !.sent_messages = Recorded(@, i, message_id, content)]
       ELSE /\ session' = [session EXCEPT !.i = i + 1]
            /\ UNCHANGED channel

\* new_msg = await self._send_message(...) (lines 409-416), not in a try
SendSegment(i, content, ok) ==
    IF ok
    THEN LET message_id == Len(channel) + 1
         IN  /\ trace' = Logged(Op("send", i, message_id, content, FALSE, TRUE))
             /\ channel' = Append(channel,
                                  [content |-> content, keyboard |-> FALSE])
             /\ session' = [session EXCEPT !.i = i + 1,
                    !.sent_messages = Recorded(@, i, message_id, content)]
    ELSE /\ trace' = [Logged(Op("send", i, 0, content, FALSE, FALSE))
                         EXCEPT !.cause = "send"]
         /\ session' = [session EXCEPT !.pc = "errored", !.stage = "none"]
         /\ UNCHANGED channel

\* One turn of the loop of _update_messages (lines 381-416); ok is the outcome
\* of the channel operation, if the turn makes one.
Reconcile(ok) ==
    /\ session.pc \in {"flushing", "final"}
    /\ session.i < Len(session.messages)
    /\ LET i == session.i
           msg_content == session.messages[i + 1]
           sm == session.sent_messages
       IN  IF i = 0
           THEN IF 0 \notin DOMAIN sm \/ Differs(msg_content, sm[0].content)
                THEN EditSegment(0, AnchorId, msg_content, ok)
                ELSE /\ session' = [session EXCEPT !.i = 1]
                     /\ UNCHANGED <<channel, trace>>
           ELSE IF i \in DOMAIN sm
                THEN IF Differs(msg_content, sm[i].content)
                     THEN EditSegment(i, sm[i].message_id, msg_content, ok)
                     ELSE /\ session' = [session EXCEPT !.i = i + 1]
                          /\ UNCHANGED <<channel, trace>>
                ELSE SendSegment(i, msg_content, ok)
    /\ UNCHANGED <<now, execVars>>

\* Back to the generator after every flush.
AfterFlushLoop(ses, t) ==
    [ses EXCEPT !.pc = "collecting", !.last_update_time = t]

\* _update_messages returns: last_update_time = time.time() and the next
\* fragment (line 342), or add_message and save_conversation (lines 349-354)
AfterFlush(ses, t) ==
    IF ses.pc = "flushing"
    THEN [ses EXCEPT !.pc = "collecting", !.last_update_time = t]
    ELSE BeginFinalizing(ses)

\* asyncio.sleep(0.3) at the end of _update_messages returns (line 417)
EndFlush ==
    /\ session.pc \in {"flushing", "final"}
    /\ session.i = Len(session.messages)
    /\ session' = AfterFlush(session, now)
    /\ trace' = IF session.pc = "final"
                THEN [trace EXCEPT !.saved = @ + 1] ELSE trace
    /\ UNCHANGED <<now, channel, execVars>>

\* ------------------------------------------------------ stream: finalizing
\* last_idx in sent_messages (line 444)
HasLast(sm, last_idx) == last_idx \in DOMAIN sm

\* A storage call of the finalization returned: the artifact is persisted.
Persisted(tr, artifact) == [tr EXCEPT !.persisted = Append(@, artifact)]

\* await self.storage.save_conversation(conversation) returns or raises
\* (line 354)
SaveConversation(ok) ==
    /\ session.pc = "finalizing" /\ session.stage = "save"
    /\ IF ok
       THEN /\ session' = [session EXCEPT !.stage = "page"]
            /\ trace' = Persisted(trace, "conversation")
            /\ UNCHANGED channel
       ELSE Errored("storage")
    /\ UNCHANGED <<now, execVars>>

\* _finalize: the text is chunked once more, into messages and `assets`
\* assets, and save_web_page returns or raises (lines 426-431).  The blocks of
\* the text do not tell its code blocks apart, so the number of assets is any
\* number up to MaxAssets.
SaveWebPage(ok, assets) ==
    /\ session.pc = "finalizing" /\ session.stage = "page"
    /\ IF ok
       THEN /\ session' = [session EXCEPT
                   !.stage = "assets",
                   !.messages = FormatResponseForTelegram(session.accumulated_text),
                   !.assets = assets, !.asset_i = 0]
            /\ trace' = Persisted([trace EXCEPT !.chunked = @ + 1], "page")
            /\ UNCHANGED channel
       ELSE Errored("storage")
    /\ UNCHANGED <<now, execVars>>

\* Every asset is taken for the keyboard as saved already.
AssetsLeftNone(ses) == FALSE

\* for asset in assets (line 433)
AssetsLeft(ses) == ses.asset_i < ses.assets

\* await self.storage.save_asset(page_id, asset) returns or raises (line 434)
SaveAsset(ok) ==
    /\ session.pc = "finalizing" /\ session.stage = "assets"
    /\ AssetsLeft(session)
    /\ IF ok
       THEN /\ session' = [session EXCEPT !.asset_i = @ + 1]
            /\ trace' = Persisted(trace, "asset")
            /\ UNCHANGED channel
       ELSE Errored("storage")
    /\ UNCHANGED <<now, execVars>>

\* _finalize after its loop, up to its edit (lines 436-445): the keyboard is
\* made, and the edit follows if the last index is recorded
Finalize ==
    /\ session.pc = "finalizing" /\ session.stage = "assets"
    /\ ~AssetsLeft(session)
    /\ LET last_idx == Len(session.messages) - 1
       IN  session' =
              IF HasLast(session.sent_messages, last_idx)
              THEN [session EXCEPT !.stage = "render", !.i = last_idx]
              ELSE [session EXCEPT !.pc = "done", !.stage = "none"]
    /\ UNCHANGED <<now, channel, trace, execVars>>

\* _edit_message_text(text, reply_markup = keyboard) (lines 446-454)
TerminalEdit(ok) ==
    /\ session.pc = "finalizing" /\ session.stage = "render"
    /\ LET last_idx == session.i
           msg_id == session.sent_messages[last_idx].message_id
           content == session.messages[last_idx + 1]
       IN  /\ trace' = Logged(Op("edit", last_idx, msg_id, content, TRUE, ok))
           /\ IF ok
              THEN /\ channel' = [channel EXCEPT ![msg_id] =
                          [content |-> content, keyboard |-> TRUE]]
                   /\ session' = [session EXCEPT !.pc = "done",
                                                 !.stage = "none"]
              ELSE /\ session' = [session EXCEPT !.stage = "markup"]
                   /\ UNCHANGED channel
    /\ UNCHANGED <<now, execVars>>

\* _edit_message_reply_markup(reply_markup = keyboard) (lines 454-459)
TerminalMarkup(ok) ==
    /\ session.pc = "finalizing" /\ session.stage = "markup"
    /\ LET last_idx == session.i
           msg_id == session.sent_messages[last_idx].message_id
       IN  /\ trace' = [Logged(Op("markup", last_idx, msg_id,
                                  channel[msg_id].content, TRUE, ok))
                           EXCEPT !.cause = IF ok THEN @ ELSE "markup"]
           /\ IF ok
              THEN /\ channel' = [channel EXCEPT ![msg_id].keyboard = TRUE]
                   /\ session' = [session EXCEPT !.pc = "done",
                                                 !.stage = "none"]
              ELSE /\ session' = [session EXCEPT !.pc = "errored",
                                                 !.stage = "none"]
                   /\ UNCHANGED channel
    /\ UNCHANGED <<now, execVars>>

\* except Exception: the edit of the anchor with the error text (lines 360-369)
ErrorEdit(ok) ==
    /\ session.pc = "errored" /\ ~session.error_edited
    /\ trace' = Logged(Op("edit", 0, AnchorId, ErrorText, FALSE, ok))
    /\ channel' = IF ok THEN [channel EXCEPT ![AnchorId].content = ErrorText]
                  ELSE channel
    /\ session' = [session EXCEPT !.error_edited = TRUE]
    /\ UNCHANGED <<now, execVars>>

\* time.time() moves on while the stream is under way.
Elapse ==
    /\ session.pc \notin {"done", "errored"}
    /\ now < MaxStreamTime
    /\ now' = now + 1
    /\ UNCHANGED <<session, channel, trace, execVars>>

MayFail(ok) == ok \/ trace.failures < MaxChannelFailures

\* One stream, from the anchor message to done or errored.
NextStream ==
    \/ \E chunk \in Fragments :
          Len(session.accumulated_text) < MaxFragments /\ Fragment(chunk) /\ UNCHANGED <<groupVars, utilVars>>
    \/ Exhaust /\ UNCHANGED <<groupVars, utilVars>>
    \/ GeneratorRaises /\ UNCHANGED <<groupVars, utilVars>>
    \/ \E ok \in BOOLEAN : MayFail(ok) /\ Reconcile(ok) /\ UNCHANGED <<groupVars, utilVars>>
    \/ EndFlush /\ UNCHANGED <<groupVars, utilVars>>
    \/ \E ok \in BOOLEAN : MayFail(ok) /\ SaveConversation(ok) /\ UNCHANGED <<groupVars, utilVars>>
    \/ \E ok \in BOOLEAN, assets \in 0..MaxAssets :
          MayFail(ok) /\ SaveWebPage(ok, assets) /\ UNCHANGED <<groupVars, utilVars>>
    \/ \E ok \in BOOLEAN : MayFail(ok) /\ SaveAsset(ok) /\ UNCHANGED <<groupVars, utilVars>>
    \/ Finalize /\ UNCHANGED <<groupVars, utilVars>>
    \/ \E ok \in BOOLEAN : MayFail(ok) /\ TerminalEdit(ok) /\ UNCHANGED <<groupVars, utilVars>>
    \/ \E ok \in BOOLEAN : MayFail(ok) /\ TerminalMarkup(ok) /\ UNCHANGED <<groupVars, utilVars>>
    \/ \E ok \in BOOLEAN : MayFail(ok) /\ ErrorEdit(ok) /\ UNCHANGED <<groupVars, utilVars>>
    \/ Elapse /\ UNCHANGED <<groupVars, utilVars>>

SpecStream == Init /\ [][NextStream]_vars

\* ------------------------------------------------------ media group timers
\* Time is read in whole seconds and the quiet period is 1.5 s, so a timer
\* started at s has slept long enough at every instant t with
\* 2 * (t - s) >= QuietHalfSeconds, and never exactly at its deadline.  A
\* timer whose sleep is over resumes before anything that happens later: no
\* item is added, and the clock does not move on, while one is due.
Due(task) ==
    task.state = "sleeping" /\ 2 * (now - task.start) >= QuietHalfSeconds

NoneDue == \A t \in DOMAIN tasks : ~Due(tasks[t])

\* The pending timer is left running.
CancelNothing(ts, t) == ts

\* group["task"].cancel() (lines 158-159)
Cancel(ts, t) ==
    IF t # 0 /\ ts[t].state = "sleeping"
    THEN [ts EXCEPT ![t].state = "cancelled"]
    ELSE ts

\* asyncio.create_task(self._media_group_timer(mg_id)) (line 161)
CreateTask(ts, mg_id) ==
    Append(ts, [mg_id |-> mg_id, start |-> now, state |-> "sleeping"])

\* The new item replaces the buffered ones.
BufferedAlone(files, attachment) == <<attachment>>

\* The new item is put in front of the buffered ones.
BufferedFront(files, attachment) == <<attachment>> \o files

\* group["files"].append(attachment) (line 152)
Buffered(files, attachment) == Append(files, attachment)

\* _buffer_media_group (lines 139-161): the n-th item added, message n with
\* the given caption ("": none), arrives for group mg_id
AddItem(mg_id, caption) ==
    /\ NoneDue
    /\ LET n == Len(groupTrace.items) + 1
           g0 == IF media_group_buffer[mg_id].present
                 THEN media_group_buffer[mg_id] ELSE NewGroup(n)
           g1 == [g0 EXCEPT !.files = Buffered(@, n)]
           g2 == IF caption # "" /\ g1.caption = ""
                 THEN [g1 EXCEPT !.caption = caption, !.message = n]
                 ELSE g1
           ts == CreateTask(Cancel(tasks, g2.task), mg_id)
       IN  /\ tasks' = ts
           /\ media_group_buffer' =
                 [media_group_buffer EXCEPT ![mg_id] =
                     [g2 EXCEPT !.task = Len(ts)]]
           /\ groupTrace' = [groupTrace EXCEPT !.items =
                 Append(@, [id |-> n, mg_id |-> mg_id, at |-> now])]
    /\ UNCHANGED <<now, execVars, streamVars, utilVars>>

\* The group is read and left in the buffer.
PoppedNot(buffer, mg_id) == buffer

\* self._media_group_buffer.pop(mg_id) (line 176)
Popped(buffer, mg_id) == [buffer EXCEPT ![mg_id] = NoGroup]

\* _media_group_timer after asyncio.sleep(1.5) and _finalize_media_group up to
\* its hand-over (lines 166-192): the group is popped and handed on
TimerFires(t) ==
    /\ t \in DOMAIN tasks
    /\ Due(tasks[t])
    /\ tasks' = [tasks EXCEPT ![t].state = "finalized"]
    /\ LET mg_id == tasks[t].mg_id
           group == media_group_buffer[mg_id]
       IN  IF group.present
           THEN /\ media_group_buffer' = Popped(media_group_buffer, mg_id)
                /\ groupTrace' = [groupTrace EXCEPT !.flushes =
                      Append(@, [mg_id |-> mg_id, files |-> group.files,
                                 caption |-> group.caption,
                                 message |-> group.message,
                                 task |-> t, at |-> now])]
           ELSE UNCHANGED <<media_group_buffer, groupTrace>>
    /\ UNCHANGED <<now, execVars, streamVars, utilVars>>

\* time.time() moves on
GroupTick ==
    /\ NoneDue
    /\ now < MaxGroupTime
    /\ now' = now + 1
    /\ UNCHANGED <<execVars, streamVars, groupVars, utilVars>>

\* Items of media groups arriving over time.
NextGroups ==
    \/ \E mg_id \in GroupKeys, caption \in {"", "caption"} :
          Len(groupTrace.items) < MaxItems /\ AddItem(mg_id, caption)
    \/ \E t \in 1..MaxItems : TimerFires(t)
    \/ GroupTick

SpecGroups == Init /\ [][NextGroups]_vars

\* The quiet period of a timer started now ends within the time observed.
Settles == 2 * (MaxGroupTime - now) >= QuietHalfSeconds

\* The same, with every item arriving early enough for its timer to expire:
\* the clock moves on, and the event loop resumes a timer (line 166) whose
\* sleep is over.
NextGroupsFair ==
    \/ \E mg_id \in GroupKeys, caption \in {"", "caption"} :
          Len(groupTrace.items) < MaxItems /\ Settles /\ AddItem(mg_id, caption)
    \/ \E t \in 1..MaxItems : TimerFires(t)
    \/ GroupTick

SpecGroupsFair ==
    /\ Init /\ [][NextGroupsFair]_vars
    /\ WF_vars(GroupTick)
    /\ \A t \in 1..MaxItems : WF_vars(TimerFires(t))

\* ------------------------------------------------------ calls of the chunker
\* Sequences of at most n elements of S.
SeqsUpTo(S, n) == UNION {[1..k -> S] : k \in 0..n}

\* The parts handed to _merge_into_messages: text parts and wrapped code
\* blocks of any length, the empty and the oversized ones among them.
Parts == SeqsUpTo(Letters, MaxPartBlocks)
PartLists == SeqsUpTo(Parts, MaxParts)

\* await self._merge_into_messages(string_parts)
MergeCall(string_parts) ==
    /\ formatter = NoCall
    /\ formatter' = [call |-> "merge", input |-> string_parts,
                     output |-> MergeIntoMessages(string_parts)]
    /\ UNCHANGED <<now, execVars, streamVars, groupVars, db_retry, handler, lateVars>>

NextMerge == \E string_parts \in PartLists : MergeCall(string_parts)

SpecMerge == Init /\ [][NextMerge]_vars

\* ------------------------------------------------------------- code assets
\* The code of a file box is the sequence of its lines (code_str.split("\n")),
\* a line being its length with the backticks and backslashes it holds.  The
\* limit is the default MAX_MESSAGE_LENGTH: the safety margin of line 361 is a
\* fixed number of characters, and lines are lengths, so nothing is scaled.
Line(len, ticks) == [len |-> len, ticks |-> ticks, slashes |-> 0]

\* len("\n".join(lines))
RECURSIVE CodeLen(_)
CodeLen(lines) ==
    IF lines = <<>> THEN 0
    ELSE IF Len(lines) = 1 THEN lines[1].len
    ELSE lines[1].len + 1 + CodeLen(Tail(lines))

\* len(f"```{telegram_lang}\n\n```") (line 360)
FenceOverhead(lang_len) == FenceChars + lang_len

\* max_code_size (line 361)
MaxCodeSize(lang_len) ==
    DefaultMaxMessageLength - FenceOverhead(lang_len) - SafetyMargin

\* code.replace("`", "\\`"), line by line
EscapeCodeContent(line) ==
    [len |-> line.len + line.ticks, ticks |-> line.ticks,
     slashes |-> line.slashes + line.ticks]

\* _create_code_block: the fenced rendering of a chunk of lines
CreateCodeBlock(code, lang_len) ==
    [lang_len |-> lang_len,
     code |-> [n \in DOMAIN code |-> EscapeCodeContent(code[n])]]

\* The length of a fenced rendering.
WrappedLen(wrapped) == FenceOverhead(wrapped.lang_len) + CodeLen(wrapped.code)

\* The loop of lines 375-394 from line i on, and the last chunk (396-399).
RECURSIVE SplitFrom(_, _, _, _, _, _)
SplitFrom(lines, i, current_chunk_lines, current_chunk_size, wrapped_parts, lang_len) ==
    IF i > Len(lines)
    THEN IF current_chunk_lines # <<>>
         THEN Append(wrapped_parts, CreateCodeBlock(current_chunk_lines, lang_len))
         ELSE wrapped_parts
    ELSE LET line == lines[i]
             line_size == line.len + 1
         IN  IF current_chunk_size + line_size > MaxCodeSize(lang_len)
                /\ current_chunk_lines # <<>>
             THEN SplitFrom(lines, i + 1, <<line>>, line_size,
                            Append(wrapped_parts,
                                   CreateCodeBlock(current_chunk_lines, lang_len)),
                            lang_len)
             ELSE SplitFrom(lines, i + 1, Append(current_chunk_lines, line),
                            current_chunk_size + line_size, wrapped_parts,
                            lang_len)

\* _process_file_box, its wrapped_parts (lines 358-401)
ProcessFileBox(lines, lang_len) ==
    IF CodeLen(lines) <= MaxCodeSize(lang_len)
    THEN <<CreateCodeBlock(lines, lang_len)>>
    ELSE SplitFrom(lines, 1, <<>>, 0, <<>>, lang_len)

\* The language identifiers "r" and "python".
LangLens == {1, 6}

\* Lines that are empty, short, just below, at and above max_code_size, and
\* longer than a message; without backticks or made of backticks only.
CodeLines(lang_len) ==
    LET B == MaxCodeSize(lang_len)
    IN  {Line(0, 0), Line(1, 0), Line(1, 1), Line(B - 2, 0), Line(B - 2, B - 2),
         Line(B - 1, 0), Line(B, 0), Line(B + 1, 0),
         Line(DefaultMaxMessageLength, 0)}

\* await self._process_file_box(box, file_type_counter)
FileBoxCall(lines, lang_len) ==
    /\ formatter = NoCall
    /\ formatter' = [call |-> "file_box",
                     input |-> [lines |-> lines, lang_len |-> lang_len],
                     output |-> ProcessFileBox(lines, lang_len)]
    /\ UNCHANGED <<now, execVars, streamVars, groupVars, db_retry, handler, lateVars>>

NextFileBox ==
    \E lang_len \in LangLens :
        \E k \in 1..MaxLines : \E lines \in [1..k -> CodeLines(lang_len)] :
            FileBoxCall(lines, lang_len)

SpecFileBox == Init /\ [][NextFileBox]_vars

\* ---------------------------------------------------------------- fallback
\* The raw text is a text of blocks; "*" is a character that MarkdownV2
\* reserves.
RawLetters == Letters \cup {"*"}
Reserved == {"*"}

\* telegramify_markdown.render.escape_markdown: a backslash before every
\* reserved character; here of the BlockLen characters of a block
EscapedBlock(letter) ==
    IF letter \in Reserved
    THEN [i \in 1..(2 * BlockLen) |-> IF i % 2 = 1 THEN "\\" ELSE letter]
    ELSE [i \in 1..BlockLen |-> letter]

\* escape_markdown(raw_text), the characters of the result
RECURSIVE EscapeMarkdown(_)
EscapeMarkdown(text) ==
    IF text = <<>> THEN <<>>
    ELSE EscapedBlock(text[1]) \o EscapeMarkdown(Tail(text))

\* Slices of MAX_MESSAGE_LENGTH characters.
SlicesLong(escaped, i) ==
    LET n == (Len(escaped) - i + MaxMessageLength - 1) \div MaxMessageLength
    IN  [k \in 1..n |->
            SubSeq(escaped, i + (k - 1) * MaxMessageLength,
                   IF i + k * MaxMessageLength - 1 < Len(escaped)
                   THEN i + k * MaxMessageLength - 1 ELSE Len(escaped))]

\* escaped[i : i + Config.SAFE_MESSAGE_LENGTH] for i in range(0, len(escaped),
\* Config.SAFE_MESSAGE_LENGTH) (lines 550-551), from character i on
RECURSIVE Slices(_, _)
Slices(escaped, i) ==
    IF i > Len(escaped) THEN <<>>
    ELSE <<SubSeq(escaped, i,
                  IF i + SafeMessageLength - 1 < Len(escaped)
                  THEN i + SafeMessageLength - 1 ELSE Len(escaped))>>
             \o Slices(escaped, i + SafeMessageLength)

\* The except branch of format_response_for_telegram (lines 540-552)
Fallback(raw_text) ==
    LET escaped == EscapeMarkdown(raw_text)
    IN  IF Len(escaped) <= MaxMessageLength
        THEN [messages |-> <<escaped>>, assets |-> <<>>]
        ELSE [messages |-> Slices(escaped, 1), assets |-> <<>>]

\* format_response_for_telegram(raw_text) when a step of its try block raises
FallbackCall(raw_text) ==
    /\ formatter = NoCall
    /\ formatter' = [call |-> "fallback", input |-> raw_text,
                     output |-> Fallback(raw_text)]
    /\ UNCHANGED <<now, execVars, streamVars, groupVars, db_retry, handler, lateVars>>

NextFallback ==
    \E raw_text \in SeqsUpTo(RawLetters, MaxRawBlocks) : FallbackCall(raw_text)

SpecFallback == Init /\ [][NextFallback]_vars

\* ---------------------------------------------------- notation normalization
\* A markdown text is a sequence of tokens separated by single spaces: the
\* LaTeX command \alpha, the delimiters $ and $$, and code spans (`...`, two
\* different ones).  The result also holds the letter the command becomes,
\* the markers ** and _ put around converted math, placeholders
\* (__CODE_BLOCK_n__) and what _latex_to_unicode makes of a placeholder.
Tok(kind, id) == [kind |-> kind, id |-> id]

InputTokens ==
    {Tok("alpha", 0), Tok("dollar", 0), Tok("ddollar", 0),
     Tok("code", 1), Tok("code", 2)}

IsCode(tok) == tok.kind = "code"

\* code_pattern.sub(store_code, text) (lines 277-285): the n-th code span
\* becomes __CODE_BLOCK_{n-1}__
StoreCode(text) ==
    [i \in DOMAIN text |->
        IF IsCode(text[i])
        THEN Tok("placeholder", Len(SelectSeq(SubSeq(text, 1, i - 1), IsCode)))
        ELSE text[i]]

\* code_blocks after the substitution
CodeBlocks(text) == SelectSeq(text, IsCode)

\* _latex_to_unicode: the command becomes its letter; of a placeholder, the
\* subscript rule (line 256) turns "_C", "_B" and "_n" into "C", "B" and the
\* subscript digit, which leaves "_CODEBLOCK\u2099__"
LatexToUnicode(latex) ==
    [i \in DOMAIN latex |->
        IF latex[i].kind = "alpha" THEN Tok("unicode", 0)
        ELSE IF latex[i].kind = "placeholder" THEN Tok("mangled", latex[i].id)
        ELSE latex[i]]

\* The positions after i that hold a token of one of the kinds.
Following(text, i, kinds) ==
    {j \in (i + 1)..Len(text) : text[j].kind \in kinds}

\* re.sub(r"\$\$(.*?)\$\$", replace_display, text) (lines 288-292)
RECURSIVE ReplaceDisplay(_)
ReplaceDisplay(text) ==
    LET opens == Following(text, 0, {"ddollar"})
    IN  IF opens = {} THEN text
        ELSE LET i == Min(opens)
                 closes == Following(text, i, {"ddollar"})
             IN  IF closes = {} THEN text
                 ELSE LET j == Min(closes)
                      IN  SubSeq(text, 1, i - 1) \o <<Tok("bold", 0)>>
                            \o LatexToUnicode(SubSeq(text, i + 1, j - 1))
                            \o <<Tok("bold", 0)>>
                            \o ReplaceDisplay(SubSeq(text, j + 1, Len(text)))

\* re.sub(r"(?<!\$)\$(?!\$)([^$\n]+?)\$(?!\$)", replace_inline, text) (lines
\* 295-299): a $ pairs with the next $ unless a $$ comes first
RECURSIVE ReplaceInline(_)
ReplaceInline(text) ==
    LET opens == Following(text, 0, {"dollar"})
    IN  IF opens = {} THEN text
        ELSE LET i == Min(opens)
                 stops == Following(text, i, {"dollar", "ddollar"})
             IN  IF stops # {} /\ text[Min(stops)].kind = "dollar"
                 THEN LET j == Min(stops)
                      IN  SubSeq(text, 1, i - 1) \o <<Tok("italic", 0)>>
                            \o LatexToUnicode(SubSeq(text, i + 1, j - 1))
                            \o <<Tok("italic", 0)>>
                            \o ReplaceInline(SubSeq(text, j + 1, Len(text)))
                 ELSE SubSeq(text, 1, i)
                         \o ReplaceInline(SubSeq(text, i + 1, Len(text)))

\* text.replace(f"__CODE_BLOCK_{idx}__", code_block) for every stored block
\* (lines 301-302)
Restore(text, code_blocks) ==
    [i \in DOMAIN text |->
        IF text[i].kind = "placeholder" THEN code_blocks[text[i].id + 1]
        ELSE text[i]]

\* _preprocess_latex_in_markdown (lines 273-303)
PreprocessLatexInMarkdown(text) ==
    Restore(ReplaceInline(ReplaceDisplay(StoreCode(text))), CodeBlocks(text))

\* await self._preprocess_latex_in_markdown(raw_text)
LatexCall(text) ==
    /\ formatter = NoCall
    /\ formatter' = [call |-> "latex", input |-> text,
                     output |-> PreprocessLatexInMarkdown(text)]
    /\ UNCHANGED <<now, execVars, streamVars, groupVars, db_retry, handler, lateVars>>

NextLatex == \E text \in SeqsUpTo(InputTokens, MaxTokens) : LatexCall(text)

SpecLatex == Init /\ [][NextLatex]_vars

\* ------------------------------------------------------------ db_lock_retry
\* One more attempt is made after the last retry.
MayRetryOnceMore(retry_count) == retry_count <= MaxDbRetries

\* while retry_count < max_db_retries (line 218)
MayRetry(retry_count) == retry_count < MaxDbRetries

\* The wrapper is called and awaits func for the first time (lines 215-220).
DbCall(p) ==
    /\ db_retry[p].pc = "idle"
    /\ db_retry' = [db_retry EXCEPT ![p].pc =
                       IF MayRetry(db_retry[p].retry_count)
                       THEN "in_call" ELSE "done"]
    /\ UNCHANGED <<now, execVars, streamVars, groupVars, formatter, handler, lateVars>>

\* return await func(*args, **kwargs) (line 220)
DbReturns(p) ==
    /\ db_retry[p].pc = "in_call"
    /\ db_retry' = [db_retry EXCEPT ![p].pc = "done",
                                     ![p].outcomes = Append(@, "ok"),
                                     ![p].result = "returned"]
    /\ UNCHANGED <<now, execVars, streamVars, groupVars, formatter, handler, lateVars>>

\* OperationalError "database is locked" (lines 221-228): count it and sleep
DbLocked(p) ==
    /\ db_retry[p].pc = "in_call"
    /\ db_retry' = [db_retry EXCEPT ![p].pc = "sleeping",
                                     ![p].retry_count = @ + 1,
                                     ![p].outcomes = Append(@, "locked")]
    /\ UNCHANGED <<now, execVars, streamVars, groupVars, formatter, handler, lateVars>>

\* Another OperationalError (lines 229-230) or another exception (lines
\* 231-233) is raised again
DbFails(p, error) ==
    /\ db_retry[p].pc = "in_call"
    /\ db_retry' = [db_retry EXCEPT ![p].pc = "done",
                                     ![p].outcomes = Append(@, error),
                                     ![p].result = error]
    /\ UNCHANGED <<now, execVars, streamVars, groupVars, formatter, handler, lateVars>>

\* asyncio.sleep(sleep_time) is over (line 228): the loop condition again,
\* then the next call or the raise of lines 236-240
DbWake(p) ==
    /\ db_retry[p].pc = "sleeping"
    /\ db_retry' = [db_retry EXCEPT
          ![p].sleeps = @ + 1,
          ![p].pc = IF MayRetry(db_retry[p].retry_count)
                    THEN "in_call" ELSE "done",
          ![p].result = IF MayRetry(db_retry[p].retry_count)
                        THEN @ ELSE "locked_out"]
    /\ UNCHANGED <<now, execVars, streamVars, groupVars, formatter, handler, lateVars>>

NextDb ==
    \/ \E p \in Procs : DbCall(p)
    \/ \E p \in Procs : DbReturns(p)
    \/ \E p \in Procs : DbLocked(p)
    \/ \E p \in Procs, error \in {"operational", "other"} : DbFails(p, error)
    \/ \E p \in Procs : DbWake(p)

SpecDb == Init /\ [][NextDb]_vars

\* ---------------------------------------------------------------- operation
\* The wrapper's arguments hold a CallbackQuery ("callback"), else a Message
\* ("message"), or neither ("none").  The data of a callback starts with the
\* prefix ("match"), does not ("other"), or is missing ("none").
Events == {"callback", "message", "none"}
CallbackData == {"match", "other", "none"}

\* No callback is turned away.
RejectsNothing(event, data, validate) == FALSE

\* validate_callback_prefix and cb.data and not cb.data.startswith(...)
\* (lines 171-174)
Rejects(event, data, validate) ==
    event = "callback" /\ validate /\ data = "other"

\* The wrapper is called (lines 164-182): an invalid callback is answered,
\* anything else goes to the handler.  accessible: cb.message is a Message.
OpCall(event, data, notify_user, validate, accessible) ==
    /\ handler.pc = "idle"
    /\ event # "callback" => (data = "none" /\ ~accessible)
    /\ handler' = [handler EXCEPT
          !.event = event, !.data = data, !.notify_user = notify_user,
          !.validate = validate, !.accessible = accessible,
          !.pc = IF Rejects(event, data, validate)
                 THEN "rejecting" ELSE "in_handler",
          !.invoked = ~Rejects(event, data, validate)]
    /\ UNCHANGED <<now, execVars, streamVars, groupVars, formatter, db_retry, lateVars>>

\* await cb.answer(); return (lines 174-175): outside the try, so its own
\* exception leaves the wrapper
OpReject(ok) ==
    /\ handler.pc = "rejecting"
    /\ handler' = [handler EXCEPT !.pc = "done", !.answered = @ + 1,
                                  !.result = IF ok THEN "None" ELSE "raised"]
    /\ UNCHANGED <<now, execVars, streamVars, groupVars, formatter, db_retry, lateVars>>

\* return await func(*args, **kwargs) (line 180)
OpHandlerReturns ==
    /\ handler.pc = "in_handler"
    /\ handler' = [handler EXCEPT !.pc = "done", !.result = "value"]
    /\ UNCHANGED <<now, execVars, streamVars, groupVars, formatter, db_retry, lateVars>>

\* except Exception (lines 182-198) up to the first await of the notification
OpHandlerRaises ==
    /\ handler.pc = "in_handler"
    /\ handler' = [handler EXCEPT
          !.raised = TRUE,
          !.pc = IF ~handler.notify_user \/ handler.event = "none" THEN "done"
                 ELSE IF handler.event = "callback" /\ ~handler.accessible
                 THEN "answering"
                 ELSE "notifying",
          !.result = IF ~handler.notify_user \/ handler.event = "none"
                     THEN "None" ELSE @]
    /\ UNCHANGED <<now, execVars, streamVars, groupVars, formatter, db_retry, lateVars>>

\* await cb.message.answer(error_text) / await msg.answer(error_text) (lines
\* 193-197); except Exception: pass (lines 198-199)
OpNotify(ok) ==
    /\ handler.pc = "notifying"
    /\ handler' = [handler EXCEPT
          !.notified = @ + 1,
          !.pc = IF ok /\ handler.event = "callback"
                 THEN "answering" ELSE "done",
          !.result = IF ok /\ handler.event = "callback" THEN @ ELSE "None"]
    /\ UNCHANGED <<now, execVars, streamVars, groupVars, formatter, db_retry, lateVars>>

\* await cb.answer("Error") (line 195); except Exception: pass
OpAnswer(ok) ==
    /\ handler.pc = "answering"
    /\ handler' = [handler EXCEPT !.answered = @ + 1, !.pc = "done",
                                  !.result = "None"]
    /\ UNCHANGED <<now, execVars, streamVars, groupVars, formatter, db_retry, lateVars>>

NextOperation ==
    \/ \E event \in Events, data \in CallbackData,
          notify_user, validate, accessible \in BOOLEAN :
          OpCall(event, data, notify_user, validate, accessible)
    \/ \E ok \in BOOLEAN : OpReject(ok)
    \/ OpHandlerReturns
    \/ OpHandlerRaises
    \/ \E ok \in BOOLEAN : OpNotify(ok)
    \/ \E ok \in BOOLEAN : OpAnswer(ok)

SpecOperation == Init /\ [][NextOperation]_vars

\* ------------------------------------------------- retry loop, without time
\* The loop of lines 103-149 with its sleeps as steps that end: what matters
\* here is whether the loop goes on, not when.
\* The failure is not counted.
CountedNot(retry_count) == retry_count

\* retry_count += 1 (line 132)
Counted(retry_count) == retry_count + 1

\* retry_count = 0 and the first call of func (lines 103-108)
LoopStart(p, f) ==
    /\ loop[p].pc = "idle"
    /\ loop' = [loop EXCEPT ![p] = [IdleLoop EXCEPT !.pc = "in_call", !.fn = f,
                                                     !.plain_calls = 1]]
    /\ UNCHANGED notLoop

\* return result (lines 108-113); "message is not modified" (lines 126-127)
LoopReturns(p) ==
    /\ loop[p].pc = "in_call"
    /\ loop' = [loop EXCEPT ![p].pc = "done", ![p].result = "ok"]
    /\ UNCHANGED notLoop

\* except TelegramRetryAfter (lines 115-123): sleep, then continue
LoopRetryAfter(p) ==
    /\ loop[p].pc = "in_call"
    /\ loop' = [loop EXCEPT ![p].pc = "ra_sleep", ![p].signalled = TRUE]
    /\ UNCHANGED notLoop

\* any other TelegramBadRequest: raise e (lines 128-129)
LoopBadRequest(p) ==
    /\ loop[p].pc = "in_call"
    /\ loop' = [loop EXCEPT ![p].pc = "done", ![p].result = "error"]
    /\ UNCHANGED notLoop

\* any other exception (lines 131-149): count it, give up or sleep
LoopFailure(p) ==
    /\ loop[p].pc = "in_call"
    /\ LET r == [loop[p] EXCEPT !.retry_count = Counted(@)]
       IN  loop' = [loop EXCEPT ![p] =
              IF Exhausted(r.retry_count, MaxRetries(r))
              THEN [r EXCEPT !.pc = "done", !.result = "error"]
              ELSE [r EXCEPT !.pc = "retry_sleep"]]
    /\ UNCHANGED notLoop

\* asyncio.sleep returns and func is called again (lines 122-123, 149, 108)
LoopWake(p) ==
    /\ loop[p].pc \in {"ra_sleep", "retry_sleep"}
    /\ loop' = [loop EXCEPT
          ![p].pc = "in_call",
          ![p].plain_calls = IF loop[p].pc = "retry_sleep" THEN @ + 1 ELSE @]
    /\ UNCHANGED notLoop

\* The caller has the result or the exception.
LoopFinish(p) ==
    /\ loop[p].pc = "done"
    /\ loop' = [loop EXCEPT ![p] = IdleLoop]
    /\ UNCHANGED notLoop

\* The wrapped call ends, in whatever way.
CallEnds(p) ==
    LoopReturns(p) \/ LoopRetryAfter(p) \/ LoopBadRequest(p) \/ LoopFailure(p)

NextLoop ==
    \/ \E p \in Procs, f \in DOMAIN Funcs : LoopStart(p, f)
    \/ \E p \in Procs : LoopReturns(p)
    \/ \E p \in Procs : LoopRetryAfter(p)
    \/ \E p \in Procs : LoopBadRequest(p)
    \/ \E p \in Procs : LoopFailure(p)
    \/ \E p \in Procs : LoopWake(p)
    \/ \E p \in Procs : LoopFinish(p)

\* Every call of the wrapped function ends and every sleep ends.
SpecLoop ==
    /\ Init /\ [][NextLoop]_vars
    /\ \A p \in Procs : WF_vars(CallEnds(p)) /\ WF_vars(LoopWake(p))

\* -------------------------------------------------------- conversation flow
Users == 1..NumUsers

\* The attachments numbered after the ones uploaded so far.
NewAttachments(n) == [k \in 1..n |-> flowTrace.uploads + k]

\* _handle_media_upload, a file with no media group and no caption (lines
\* 101-106), and _finalize_media_group, a group of n files with no caption
\* (lines 184-192): the attachments are queued for the user
Upload(user_id, n) ==
    /\ flowTrace.uploads + n <= MaxUploads
    /\ pending_attachments' =
          [pending_attachments EXCEPT ![user_id] = @ \o NewAttachments(n)]
    /\ flowTrace' = [flowTrace EXCEPT !.uploads = @ + n]
    /\ UNCHANGED <<flow, notFlow>>

\* _process_conversation_flow up to its first await (lines 201-211, 259):
\* the pending attachments of the user are popped and joined with the
\* immediate ones (n of them)
FlowStart(user_id, is_general_topic, n) ==
    /\ flow[user_id].pc = "idle"
    /\ flowTrace.flows < MaxFlows
    /\ flowTrace.uploads + n <= MaxUploads
    /\ LET pending == pending_attachments[user_id]
       IN  flow' = [flow EXCEPT ![user_id] =
                      [pc |-> IF is_general_topic THEN "topic" ELSE "load",
                       pending |-> pending,
                       all_attachments |-> pending \o NewAttachments(n)]]
    /\ pending_attachments' = [pending_attachments EXCEPT ![user_id] = <<>>]
    /\ flowTrace' = [flowTrace EXCEPT !.uploads = @ + n, !.flows = @ + 1]
    /\ UNCHANGED notFlow

\* The topic is created and announced, or one of the calls raises: the flow
\* answers "Failed to create topic" and returns (lines 212-257)
TopicCreated(user_id, ok) ==
    /\ flow[user_id].pc = "topic"
    /\ flow' = [flow EXCEPT ![user_id] =
                   IF ok THEN [@ EXCEPT !.pc = "generate"] ELSE IdleFlow]
    /\ UNCHANGED <<pending_attachments, flowTrace, notFlow>>

\* load_conversation returns a conversation, or none: the flow answers "No
\* conversation found in this topic." and returns (lines 258-264)
ConversationLoaded(user_id, found) ==
    /\ flow[user_id].pc = "load"
    /\ flow' = [flow EXCEPT ![user_id] =
                   IF found THEN [@ EXCEPT !.pc = "generate"] ELSE IdleFlow]
    /\ UNCHANGED <<pending_attachments, flowTrace, notFlow>>

\* The user message is saved, "Thinking..." is sent and the generation is
\* given all_attachments (lines 266-283)
Generation(user_id) ==
    /\ flow[user_id].pc = "generate"
    /\ flowTrace' = [flowTrace EXCEPT !.generated =
          Append(@, [user_id |-> user_id,
                     attachments |-> flow[user_id].all_attachments])]
    /\ flow' = [flow EXCEPT ![user_id] = IdleFlow]
    /\ UNCHANGED <<pending_attachments, notFlow>>

NextFlow ==
    \/ \E user_id \in Users, n \in 1..2 : Upload(user_id, n)
    \/ \E user_id \in Users, is_general_topic \in BOOLEAN, n \in 0..1 :
          FlowStart(user_id, is_general_topic, n)
    \/ \E user_id \in Users, ok \in BOOLEAN : TopicCreated(user_id, ok)
    \/ \E user_id \in Users, found \in BOOLEAN :
          ConversationLoaded(user_id, found)
    \/ \E user_id \in Users : Generation(user_id)

SpecFlow == Init /\ [][NextFlow]_vars

\* ------------------------------------------------------------ asset storage
\* The contents a code file may have.
FileData == {"x", "y"}

\* _process_file_box (lines 343-356): the k-th file box of a response becomes
\* the asset whose asset_id is "asset_k" (the sum of file_type_counter), here k
ExtractedAssets(files) ==
    [k \in DOMAIN files |-> [asset_id |-> k, file_data |-> files[k]]]

\* _finalize up to its loop (lines 426-431): a new page_id, and the assets of
\* the text
FinalizeBegins(files) ==
    /\ page = NoPage
    /\ Len(web_pages) < MaxPages
    /\ page' = [page_id |-> Len(web_pages) + 1,
                assets |-> ExtractedAssets(files), i |-> 1]
    /\ web_pages' = Append(web_pages, <<>>)
    /\ UNCHANGED <<assets_table, notStore>>

\* await session.merge(asset) and commit (lines 116-117): the row with the
\* primary key of the asset, asset_id, is inserted or overwritten
MergedRow(table, row) ==
    [table EXCEPT ![row.asset_id] =
        [present |-> TRUE, page_id |-> row.page_id,
         file_data |-> row.file_data]]

\* await self.storage.save_asset(page_id, asset) (lines 433-434, 112-117)
SaveAssetRow ==
    /\ page # NoPage
    /\ page.i <= Len(page.assets)
    /\ LET asset == page.assets[page.i]
           row == [asset_id |-> asset.asset_id, page_id |-> page.page_id,
                   file_data |-> asset.file_data]
       IN  /\ assets_table' = MergedRow(assets_table, row)
           /\ web_pages' = [web_pages EXCEPT ![page.page_id] = Append(@, asset)]
    /\ page' = [page EXCEPT !.i = @ + 1]
    /\ UNCHANGED notStore

\* _finalize goes on after its loop (line 436)
FinalizeEnds ==
    /\ page # NoPage
    /\ page.i > Len(page.assets)
    /\ page' = NoPage
    /\ UNCHANGED <<assets_table, web_pages, notStore>>

\* load_assets(page_id) (lines 119-126): the rows of the page, ordered by
\* asset_id
RECURSIVE RowsFrom(_, _)
RowsFrom(page_id, asset_id) ==
    IF asset_id > MaxAssets THEN <<>>
    ELSE (IF /\ assets_table[asset_id].present
             /\ assets_table[asset_id].page_id = page_id
          THEN <<[asset_id |-> asset_id,
                  file_data |-> assets_table[asset_id].file_data]>>
          ELSE <<>>) \o RowsFrom(page_id, asset_id + 1)

LoadAssets(page_id) == RowsFrom(page_id, 1)

NextStore ==
    \/ \E files \in SeqsUpTo(FileData, MaxAssets) : FinalizeBegins(files)
    \/ SaveAssetRow
    \/ FinalizeEnds

SpecStore == Init /\ [][NextStore]_vars

\* ------------------------------------------------------------ keyboard menus
\* serialize_keyboard (lines 25-41): text, url and callback_data of every
\* button
SerializeKeyboard(keyboard) ==
    [n \in DOMAIN keyboard |->
        <<keyboard[n].text, keyboard[n].url, keyboard[n].callback_data>>]

\* The buttons of the json from button n on (lines 47-60): a button with a url
\* keeps it, else one with callback_data keeps that, any other is left out
RECURSIVE DeserializeFrom(_, _)
DeserializeFrom(keyboard_json, n) ==
    IF n > Len(keyboard_json) THEN <<>>
    ELSE LET btn_data == keyboard_json[n]
         IN  (IF btn_data[2] # <<>>
              THEN <<Button(btn_data[1], btn_data[2], <<>>)>>
              ELSE IF btn_data[3] # <<>>
              THEN <<Button(btn_data[1], <<>>, btn_data[3])>>
              ELSE <<>>) \o DeserializeFrom(keyboard_json, n + 1)

\* deserialize_keyboard (lines 43-61)
DeserializeKeyboard(keyboard_json) == DeserializeFrom(keyboard_json, 1)

\* restore_keyboard_state (lines 71-77): None (<<>>) if nothing is saved
RestoreKeyboardState(context_id) ==
    IF keyboard_states[context_id] = <<>> THEN <<>>
    ELSE DeserializeKeyboard(keyboard_states[context_id])

\* build_root_menu (lines 186-210)
BuildRootMenu(scope, short_id) ==
    << Button("Provider", <<>>, <<"settings", scope, "nav", short_id, "prov">>),
       Button("Model", <<>>, <<"settings", scope, "nav", short_id, "mod">>),
       Button("< Back", <<>>, <<"settings", scope, "close", short_id>>) >>

\* build_list_menu (lines 212-236), its items left out
BuildListMenu(scope, short_id, category) ==
    << Button("< Back", <<>>, <<"settings", scope, "nav", short_id, "root">>) >>

\* The keyboard of handle_assets_menu (lines 345-364), its assets left out
AssetsKeyboard(page_id) ==
    << Button("Back", <<>>, <<"assets_back", page_id>>) >>

\* The callbacks a message offers are the callback_data of its buttons.
Offers(m, callback_data) ==
    /\ menu_message[m].exists
    /\ \E n \in DOMAIN menu_message[m].reply_markup :
          menu_message[m].reply_markup[n].callback_data = callback_data

Edited(m, reply_markup) == [menu_message EXCEPT ![m].reply_markup = reply_markup]

\* handle_unified_callback, action "open" (lines 270-277)
SettingsOpen(m) ==
    /\ Offers(m, <<"settings", "c", "open", ShortId>>)
    /\ keyboard_states' = [keyboard_states EXCEPT ![ShortId] =
                              SerializeKeyboard(menu_message[m].reply_markup)]
    /\ menu_message' = Edited(m, BuildRootMenu("c", ShortId))
    /\ menuTrace' = [menuTrace EXCEPT !.opened[m] = menu_message[m].reply_markup,
                                      !.last = <<"open", m>>]
    /\ UNCHANGED notMenu

\* handle_unified_callback, action "close" (lines 279-287)
SettingsClose(m) ==
    /\ Offers(m, <<"settings", "c", "close", ShortId>>)
    /\ LET restored == RestoreKeyboardState(ShortId)
       IN  IF restored # <<>>
           THEN /\ menu_message' = Edited(m, restored)
                /\ keyboard_states' = [keyboard_states EXCEPT ![ShortId] = <<>>]
           ELSE /\ menu_message' = [menu_message EXCEPT ![m].exists = FALSE]
                /\ UNCHANGED keyboard_states
    /\ menuTrace' = [menuTrace EXCEPT !.last = <<"close", m>>]
    /\ UNCHANGED notMenu

\* handle_unified_callback, action "nav" (lines 289-304)
SettingsNav(m, view) ==
    /\ Offers(m, <<"settings", "c", "nav", ShortId, view>>)
    /\ menu_message' = Edited(m, IF view = "root" THEN BuildRootMenu("c", ShortId)
                            ELSE BuildListMenu("c", ShortId, view))
    /\ menuTrace' = [menuTrace EXCEPT !.last = <<"nav", m>>]
    /\ UNCHANGED <<keyboard_states, notMenu>>

\* handle_assets_menu (lines 333-369)
AssetsMenu(m) ==
    /\ Offers(m, <<"assets_menu", m>>)
    /\ keyboard_states' = [keyboard_states EXCEPT ![m] =
                              SerializeKeyboard(menu_message[m].reply_markup)]
    /\ menu_message' = Edited(m, AssetsKeyboard(m))
    /\ menuTrace' = [menuTrace EXCEPT !.opened[m] = menu_message[m].reply_markup,
                                      !.last = <<"open", m>>]
    /\ UNCHANGED notMenu

\* handle_assets_back (lines 391-407)
AssetsBack(m) ==
    /\ Offers(m, <<"assets_back", m>>)
    /\ LET restored == RestoreKeyboardState(m)
       IN  IF restored # <<>>
           THEN /\ menu_message' = Edited(m, restored)
                /\ keyboard_states' = [keyboard_states EXCEPT ![m] = <<>>]
           ELSE UNCHANGED <<menu_message, keyboard_states>>
    /\ menuTrace' = [menuTrace EXCEPT !.last = <<"close", m>>]
    /\ UNCHANGED notMenu

NextMenu ==
    \/ \E m \in Messages : SettingsOpen(m)
    \/ \E m \in Messages : SettingsClose(m)
    \/ \E m \in Messages, view \in {"root", "prov", "mod"} : SettingsNav(m, view)
    \/ \E m \in Messages : AssetsMenu(m)
    \/ \E m \in Messages : AssetsBack(m)

SpecMenu == Init /\ [][NextMenu]_vars

\* ------------------------------------------------ callbacks inside the loop
\* handle_asset_download ("asset_dl") and the "pick" branch of
\* handle_unified_callback ("pick") as the func of resilient_request.wrapper:
\* the loop of lines 103-149 calls the whole handler again after a failure.
\* The rate limit before the loop (lines 99-100) is a wait and is left out.
CallbackKinds == {"asset_dl", "pick"}

\* The decorator arguments: max_retries=3 (handlers.py line 373) and the
\* default Config.MAX_RETRIES (handlers.py line 250, settings.py line 87)
CallbackFuncs ==
    [asset_dl |-> [max_retries |-> 3], pick |-> [max_retries |-> 5]]

\* The awaits of the handlers that call Telegram: reply_document (lines
\* 384-387), edit_reply_markup (line 329), callback.answer (lines 388, 330);
\* load_asset and the strategy calls are storage calls.
TelegramStep(c) ==
    \/ c.pc \in {"edit", "answer"}
    \/ c.kind = "asset_dl" /\ c.pc = "effect"

\* A callback query arrives: retry_count = 0 and the first call of the
\* handler (decorators.py lines 103-108)
CallbackArrives(kind) ==
    /\ callback.pc = "idle"
    /\ callback' = [IdleCallback EXCEPT !.kind = kind, !.pc = "lookup",
                                        !.calls = 1]
    /\ UNCHANGED notCallback

\* storage.load_asset (lines 380-383); the candidates and _resolve_val (lines
\* 309-322): without an asset or a value the handler only answers
CallbackLookup(found) ==
    /\ callback.pc = "lookup"
    /\ callback' = [callback EXCEPT !.pc = IF found THEN "effect" ELSE "answer"]
    /\ UNCHANGED notCallback

\* reply_document (lines 384-387) sends the document; update_settings (line
\* 325) writes the setting
CallbackEffect ==
    /\ callback.pc = "effect"
    /\ callback' = [callback EXCEPT
          !.documents = IF callback.kind = "asset_dl" THEN @ + 1 ELSE @,
          !.updates = IF callback.kind = "pick" THEN @ + 1 ELSE @,
          !.pc = IF callback.kind = "pick" THEN "edit" ELSE "answer"]
    /\ UNCHANGED notCallback

\* get_settings, build_root_menu and edit_reply_markup (lines 327-329)
CallbackEdit ==
    /\ callback.pc = "edit"
    /\ callback' = [callback EXCEPT !.pc = "answer"]
    /\ UNCHANGED notCallback

\* callback.answer (lines 388, 330, 382, 321) and the handler returns: return
\* result (decorators.py lines 108-113)
CallbackAnswer ==
    /\ callback.pc = "answer"
    /\ callback' = [callback EXCEPT !.pc = "done", !.result = "ok"]
    /\ UNCHANGED notCallback

\* An await of the handler raises and the loop handles it (decorators.py lines
\* 115-149): TelegramRetryAfter sleeps and continues, "message is not
\* modified" returns True, any other TelegramBadRequest is raised again, any
\* other exception is counted and the loop gives up or sleeps.
CallbackRaises(outcome) ==
    /\ callback.pc \in {"lookup", "effect", "edit", "answer"}
    /\ outcome # "error" => TelegramStep(callback)
    /\ outcome = "retry_after" => callback.signals < MaxSignals
    /\ callback' =
          CASE outcome = "retry_after" ->
                 [callback EXCEPT !.pc = "sleep", !.signals = @ + 1]
            [] outcome = "not_modified" ->
                 [callback EXCEPT !.pc = "done", !.result = "ok"]
            [] outcome = "bad_request" ->
                 [callback EXCEPT !.pc = "done", !.result = "error"]
            [] OTHER ->
                 LET c == [callback EXCEPT !.retry_count = Counted(@)]
                 IN  IF Exhausted(c.retry_count,
                                  CallbackFuncs[c.kind].max_retries)
                     THEN [c EXCEPT !.pc = "done", !.result = "error"]
                     ELSE [c EXCEPT !.pc = "sleep"]
    /\ UNCHANGED notCallback

\* asyncio.sleep returns and the handler is called again, from its first line
\* (decorators.py lines 122-123, 149, 108)
CallbackWake ==
    /\ callback.pc = "sleep"
    /\ callback' = [callback EXCEPT !.pc = "lookup", !.calls = @ + 1]
    /\ UNCHANGED notCallback

\* operation.wrapper has the result or the exception (decorators.py lines
\* 180-199); the callback is over.
CallbackFinish ==
    /\ callback.pc = "done"
    /\ callback' = IdleCallback
    /\ UNCHANGED notCallback

NextCallback ==
    \/ \E kind \in CallbackKinds : CallbackArrives(kind)
    \/ \E found \in BOOLEAN : CallbackLookup(found)
    \/ CallbackEffect
    \/ CallbackEdit
    \/ CallbackAnswer
    \/ \E outcome \in {"retry_after", "not_modified", "bad_request", "error"} : CallbackRaises(outcome)
    \/ CallbackWake
    \/ CallbackFinish

SpecCallback == Init /\ [][NextCallback]_vars

\* ------------------------------------------------------------- properties
\* The wrapped call of p is decided in this step with the given outcome.
Outcome(p, o) ==
    inv[p].pc = "in_call" /\ inv'[p].pc # "in_call" /\ inv'[p].lastOutcome = o

\* p starts an invocation in this step.
Starts(p) == inv[p].pc = "idle" /\ inv'[p].pc # "idle"

Closed(st) == ~st.is_open /\ st.failure_count = 0

\* C1: the 3rd consecutive recorded failure on a closed circuit opens it with
\* next_attempt_allowed = time of that failure + 60 s, and every invocation
\* that starts while the circuit is open and the cooldown has not elapsed
\* fails with "temporarily unavailable" without invoking the wrapped call.
C1_TripsAndFailsFast ==
    [][ /\ \A s \in Scopes :
             (~cb[s].is_open /\ cb[s].failure_count = 2
                  /\ cb'[s].failure_count = 3)
             => /\ cb'[s].is_open
                /\ cb'[s].last_failure_time = now
                /\ cb'[s].next_attempt_allowed = now + 60
        /\ \A p \in Procs :
             (Starts(p) /\ UsesCB(inv'[p])
                  /\ cb[ScopeOf(inv'[p])].is_open
                  /\ now < cb[ScopeOf(inv'[p])].next_attempt_allowed)
             => /\ inv'[p].pc = "done"
                /\ inv'[p].result = "unavailable"
                /\ inv'[p].calls = 0
                /\ cb' = cb ]_vars

C1_Witness ==
    \E p \in Procs :
        /\ inv[p].pc = "done" /\ inv[p].result = "unavailable"
        /\ inv[p].startOpen /\ inv[p].calls = 0
        /\ cb[ScopeOf(inv[p])].is_open
        /\ cb[ScopeOf(inv[p])].failure_count = 3
        /\ now < cb[ScopeOf(inv[p])].next_attempt_allowed

\* C2: while a circuit is open and its cooldown has not elapsed, no invocation
\* on the scope (started before or after the opening) invokes the wrapped
\* call or completes a rate-limit acquire.
C2_NoCallWhileOpen == \A p \in Procs : ~inv[p].blocked

\* C3: once the cooldown has elapsed exactly one call is attempted as the
\* half-open probe - no other call on the scope is invoked while the probe is
\* undecided - and the probe's success closes the circuit with failure_count 0.
C3_SingleProbe ==
    [][ /\ \A p \in Procs : ~inv'[p].overlap
        /\ \A p \in Procs :
             (probe[ScopeOf(inv[p])] = p /\ Outcome(p, "ok"))
             => Closed(cb'[ScopeOf(inv[p])]) ]_vars

\* C4: a failure of the half-open probe opens the circuit again at once, with
\* next_attempt_allowed = time of the probe's failure + 60 s.
C4_ProbeFailureReopens ==
    [][ \A p \in Procs :
          (probe[ScopeOf(inv[p])] = p /\ Outcome(p, "generic"))
          => /\ cb'[ScopeOf(inv[p])].is_open
             /\ cb'[ScopeOf(inv[p])].next_attempt_allowed = now + 60 ]_vars

\* C5: whenever an invocation with circuit breaking enabled returns a success
\* (the wrapped call's result, or True for an unchanged-content edit), the
\* breaker of its scope is closed with failure_count = 0 at that moment.
C5_SuccessMeansClosed ==
    [][ \A p \in Procs :
          (inv[p].pc # "done" /\ inv'[p].pc = "done" /\ UsesCB(inv'[p])
               /\ inv'[p].result \in {"ok", "true"})
          => Closed(cb'[ScopeOf(inv'[p])]) ]_vars

\* C6: a retry-after N signal makes the executor sleep N + 1 seconds once and
\* then invoke the wrapped call once more; the signal leaves retry_count, the
\* number of backoff sleeps and the breaker state as they were.
C6_RetryAfter ==
    [][ \A p \in Procs :
          /\ Outcome(p, "retry_after")
             => /\ inv'[p].pc \in {"ra_sleep", "pen_lock"}
                /\ inv'[p].retry_count = inv[p].retry_count
                /\ inv'[p].sleeps = inv[p].sleeps
                /\ inv'[p].calls = inv[p].calls
                /\ cb' = cb
          /\ (inv[p].pc # "ra_sleep" /\ inv'[p].pc = "ra_sleep")
             => /\ inv[p].pc \in {"in_call", "pen_lock"}
                /\ inv'[p].sleepFor = inv'[p].ra + 1
                /\ inv'[p].wake = now + inv'[p].ra + 1
          /\ (inv[p].pc = "ra_sleep" /\ inv'[p].pc # "ra_sleep")
             => /\ now >= inv[p].wake
                /\ inv'[p].pc = "in_call"
                /\ inv'[p].calls = inv[p].calls + 1
                /\ inv'[p].retry_count = inv[p].retry_count
                /\ cb' = cb ]_vars

C6_Witness ==
    \E p \in Procs :
        /\ inv[p].pc = "in_call" /\ inv[p].lastOutcome = "retry_after"
        /\ UsesCB(inv[p])
        /\ inv[p].signals = 1 /\ inv[p].retry_count = 1
        /\ inv[p].calls = 3 /\ inv[p].sleeps = 1
        /\ cb[ScopeOf(inv[p])].failure_count = 1

\* C7: "message is not modified" returns True at once - no retry, no sleep,
\* retry_count and the breaker untouched; any other bad request is raised to
\* the caller without a retry.
C7_BadRequest ==
    [][ \A p \in Procs :
          /\ Outcome(p, "not_modified")
             => inv'[p].pc = "done" /\ inv'[p].result = "true"
          /\ Outcome(p, "bad_request")
             => inv'[p].pc = "done" /\ inv'[p].result = "bad_request"
          /\ (Outcome(p, "not_modified") \/ Outcome(p, "bad_request"))
             => /\ inv'[p].retry_count = inv[p].retry_count
                /\ inv'[p].sleeps = inv[p].sleeps
                /\ inv'[p].calls = inv[p].calls
                /\ cb' = cb ]_vars

C7_Witness ==
    \E p \in Procs :
        /\ inv[p].pc = "done" /\ inv[p].result = "true"
        /\ inv[p].lastOutcome = "not_modified"
        /\ inv[p].calls = 1 /\ inv[p].sleeps = 0 /\ inv[p].retry_count = 0

\* C8: with max_retries = m and no retry-after signal, an invocation whose
\* calls all fail generically ends after exactly m + 1 calls and m backoff
\* sleeps by raising the last failure; one that succeeds on call k <= m + 1
\* returns after exactly k calls and k - 1 sleeps.
C8_BoundedRetries ==
    \A p \in Procs :
        inv[p].signals = 0 =>
            /\ inv[p].calls <= MaxRetries(inv[p]) + 1
            /\ (inv[p].pc = "done" /\ inv[p].result = "error")
               => /\ inv[p].calls = MaxRetries(inv[p]) + 1
                  /\ inv[p].sleeps = MaxRetries(inv[p])
            /\ (inv[p].pc = "done" /\ inv[p].result = "ok")
               => inv[p].sleeps = inv[p].calls - 1
            /\ inv[p].pc = "retry_sleep"
               => inv[p].sleeps = inv[p].calls /\ inv[p].calls <= MaxRetries(inv[p])

C8_Witness ==
    \E p, q \in Procs :
        /\ inv[p].pc = "done" /\ inv[p].result = "error" /\ inv[p].signals = 0
        /\ inv[p].calls = MaxRetries(inv[p]) + 1
        /\ inv[q].pc = "done" /\ inv[q].result = "ok" /\ inv[q].signals = 0
        /\ inv[q].calls = 2 /\ inv[q].sleeps = 1

\* C9: from a fresh key, up to 5 acquire calls leave a history in which every
\* two consecutive timestamps are at least MIN_UPDATE_INTERVAL apart.
C9_HistorySpacing ==
    \A k \in Keys :
        Len(rl[k].history) <= 5 =>
            \A i \in 1..(Len(rl[k].history) - 1) :
                rl[k].history[i + 1] - rl[k].history[i] >= MinUpdateInterval

\* C10: the critical section of a recipient's rate-limit state holds at most
\* one coroutine, sleeps included (its lock names the one inside), and a
\* coroutine waits for a lock only in the queue of its own recipient, behind
\* coroutines working on that same recipient.
InCritical(p) == inv[p].pc \in {"rl_bsleep", "rl_psleep"}
AwaitsLock(p) == inv[p].pc \in {"rl_lock", "pen_lock"}
RecipientKey(p) == <<ScopeOf(inv[p]), inv[p].chat>>
Queued(k) == {rl[k].waiters[i] : i \in DOMAIN rl[k].waiters}

C10_PerKeySerialization ==
    /\ \A k \in Keys, p \in Procs :
          rl[k].lock = p <=> (InCritical(p) /\ RecipientKey(p) = k)
    /\ \A k \in Keys : rl[k].lock \in Procs \cup {0}
    /\ \A k \in Keys, p \in Procs :
          p \in Queued(k) <=> (AwaitsLock(p) /\ RecipientKey(p) = k)
    /\ \A p \in Procs : AwaitsLock(p) => RecipientKey(p) \in Keys

C10_Witness ==
    \E p, q \in Procs :
        /\ inv[p].pc = "rl_psleep" /\ now < inv[p].wake
        /\ inv[q].pc = "in_call" /\ inv[q].calls = 1
        /\ inv[q].chat # inv[p].chat /\ ScopeOf(inv[q]) = ScopeOf(inv[p])
        /\ rl[<<ScopeOf(inv[q]), inv[q].chat>>].last_request_time
               >= inv[p].wake - inv[p].sleepFor

\* C11: _apply_backoff only ever extends the backoff window of a key: when it
\* completes, backoff_until is at least its value before the call and at least
\* now + seconds.
C11_PenalizeExtends ==
    [][ \A p \in Procs :
          (inv[p].pc \in {"in_call", "pen_lock"} /\ inv'[p].pc = "ra_sleep"
               /\ inv'[p].chat # 0)
          => /\ rl'[KeyOf(inv'[p])].backoff_until
                   >= rl[KeyOf(inv'[p])].backoff_until
             /\ rl'[KeyOf(inv'[p])].backoff_until >= now + inv'[p].ra + 1 ]_vars

\* C12: every invocation, in any scope, whose arguments yield a recipient has
\* completed a rate-limit acquire for the recipient's key before the wrapped
\* call is first invoked.
C12_AcquireBeforeCall ==
    \A p \in Procs :
        (inv[p].chat # 0 /\ inv[p].calls >= 1) => inv[p].acquired

\* ------------------------------------------------- properties of the stream
OpIndexes == DOMAIN trace.ops

\* The operations that reached the channel for segment i, in order.
Delivered(i) ==
    SelectSeq(trace.ops, LAMBDA op : op.ok /\ op.index = i /\ op.kind # "markup")

\* The content last sent for segment i (none: <<>>).
LastSent(i) ==
    IF Delivered(i) = <<>> THEN <<>>
    ELSE Delivered(i)[Len(Delivered(i))].content

Sends(i) == Cardinality({n \in OpIndexes : trace.ops[n].kind = "send"
                                             /\ trace.ops[n].index = i})

\* The step makes a channel operation: the operation.
Issues == Len(trace'.ops) = Len(trace.ops) + 1
Issued == trace'.ops[Len(trace'.ops)]

\* C13: for a non-empty fragment sequence delivered with no channel failure,
\* when the stream is done the content last sent for every index i is the
\* i-th message of the chunker applied to the fragments concatenated in order;
\* a message is sent at most once per index i > 0; and as long as every flush
\* had a one-segment chunk list no message besides the anchor exists.
C13_FinalContent ==
    LET final == FormatResponseForTelegram(trace.fragments)
    IN  /\ (session.pc = "done" /\ trace.failures = 0 /\ trace.fragments # <<>>)
           => \A i \in 0..(Len(final) - 1) :
                 /\ LastSent(i) = final[i + 1]
                 /\ i \in DOMAIN session.sent_messages
                 /\ channel[session.sent_messages[i].message_id].content
                        = final[i + 1]
        /\ \A i \in 1..MaxFragments : Sends(i) <= 1
        /\ trace.widest <= 1 => Len(channel) = 1

C13_Witness ==
    /\ session.pc = "done" /\ trace.failures = 0
    /\ Len(FormatResponseForTelegram(trace.fragments)) = 2
    /\ Len(Delivered(0)) >= 2 /\ Len(Delivered(1)) >= 3
    /\ LastSent(0) # Delivered(0)[1].content
    /\ trace.fragments[1] # trace.fragments[2]
    /\ Sends(1) = 1

\* C14: when the generator ends having yielded no fragment, the stream
\* reports an "empty response" on the channel: the anchor message is updated.
C14_EmptyReported ==
    (session.pc = "done" /\ trace.fragments = <<>>)
    => /\ channel[AnchorId].content # Thinking
       /\ \E n \in OpIndexes : trace.ops[n].message_id = AnchorId

\* C15: in every flush the reconciliation is by index: index 0 is only ever
\* edited, on the anchor; an index i > 0 that was sent is edited on its
\* recorded message and only with a content other than its last-sent one; a
\* message is sent only for an index not sent yet, so no flush edits with the
\* last-sent content and no index is sent twice.
C15_ReconcileByIndex ==
    [][ (Issues /\ session.pc \in {"flushing", "final"})
        => LET op == Issued
               i == op.index
           IN  /\ i = session.i
               /\ i = 0 => op.kind = "edit" /\ op.message_id = AnchorId
               /\ op.kind = "edit"
                  => /\ op.content # LastSent(i)
                     /\ i > 0 => /\ Delivered(i) # <<>>
                                 /\ op.message_id
                                      = Delivered(i)[1].message_id
               /\ op.kind = "send"
                  => i > 0 /\ Delivered(i) = <<>> /\ Sends(i) = 0
               /\ op.kind \in {"edit", "send"} ]_vars

C15_Witness ==
    /\ session.pc = "final" /\ session.i = 2
    /\ Len(trace.ops) >= 4
    /\ Sends(1) = 1 /\ Len(Delivered(1)) = 2
    /\ Len(Delivered(0)) = 2
    /\ trace.ops[Len(trace.ops)].index = 1
    /\ trace.ops[Len(trace.ops)].phase = "final"

\* C16: the failure of a single channel operation of a flush - the edit of an
\* index or the send of a new trailing index - stays with that message: the
\* stream is not errored by it.
C16_FlushFailureContained ==
    \A n \in OpIndexes :
        (trace.ops[n].phase \in {"flushing", "final"} /\ ~trace.ops[n].ok)
        => ~(session.pc = "errored" /\ trace.cause = "send")

\* C17: a stream moves only collecting -> flushing -> collecting, collecting
\* -> final flush -> finalizing -> done, or from a state other than done to
\* errored; after done or errored nothing is chunked, the session does not
\* change and, the one error edit of errored apart, the channel is not called.
StreamEdges ==
    { <<"collecting", "flushing">>, <<"flushing", "collecting">>,
      <<"collecting", "final">>, <<"final", "finalizing">>,
      <<"finalizing", "done">> }
        \cup { <<a, "errored">> :
                 a \in {"collecting", "flushing", "final", "finalizing"} }

Terminal ==
    session.pc \in {"done", "errored"}
    => /\ session'.pc = session.pc
       /\ trace'.chunked = trace.chunked
       /\ trace'.saved = trace.saved
       /\ session'.accumulated_text = session.accumulated_text
       /\ session'.sent_messages = session.sent_messages
       /\ session.pc = "done" => trace'.ops = trace.ops /\ channel' = channel
       /\ session.pc = "errored"
          => \/ trace'.ops = trace.ops /\ channel' = channel
             \/ /\ ~session.error_edited /\ session'.error_edited
                /\ Issues
                /\ Issued.kind = "edit" /\ Issued.message_id = AnchorId
                /\ Issued.content = ErrorText

C18_TerminalRendering ==
    (session.pc = "done" /\ session.accumulated_text # <<>>)
    => \E n \in OpIndexes :
          /\ trace.ops[n].phase = "finalizing"
          /\ trace.ops[n].keyboard
          /\ trace.ops[n].index
                = Len(FormatResponseForTelegram(session.accumulated_text)) - 1

\* ------------------------------------------- properties of the media groups
\* The timers of group k that are live: not cancelled, not done sleeping.
LiveTimers(k) ==
    {t \in DOMAIN tasks : tasks[t].mg_id = k /\ tasks[t].state = "sleeping"}

\* An item arrives for group k in this step.
Arrives(k) ==
    /\ Len(groupTrace'.items) = Len(groupTrace.items) + 1
    /\ groupTrace'.items[Len(groupTrace'.items)].mg_id = k

\* C19: every group key has at most one live debounce timer in every state,
\* and each arrival of an item for the key cancels the pending timer, if any,
\* and starts exactly one new timer.
C19_OneLiveTimer ==
    [][ \A k \in GroupKeys :
          /\ Cardinality(LiveTimers(k)') <= 1
          /\ Arrives(k)
             => /\ Len(tasks') = Len(tasks) + 1
                /\ LiveTimers(k)' = {Len(tasks')}
                /\ tasks'[Len(tasks')].start = now
                /\ \A t \in LiveTimers(k) : tasks'[t].state = "cancelled"
                /\ \A t \in DOMAIN tasks :
                      t \notin LiveTimers(k) => tasks'[t] = tasks[t]
                /\ media_group_buffer'[k].task = Len(tasks') ]_vars

C19_Witness ==
    \E a, b, c \in DOMAIN tasks :
        /\ a < b /\ b < c
        /\ tasks[a].mg_id = tasks[b].mg_id /\ tasks[b].mg_id = tasks[c].mg_id
        /\ tasks[a].state = "finalized"
        /\ tasks[b].state = "cancelled"
        /\ tasks[c].state = "sleeping"
        /\ \E d \in DOMAIN tasks :
              tasks[d].mg_id # tasks[a].mg_id /\ tasks[d].state = "sleeping"

ItemIds == DOMAIN groupTrace.items
FlushIds == DOMAIN groupTrace.flushes
Contains(f, x) ==
    \E n \in DOMAIN groupTrace.flushes[f].files :
        groupTrace.flushes[f].files[n] = x
FlushesOf(x) == {f \in FlushIds : Contains(f, x)}
Gap2(x, y) == 2 * (groupTrace.items[y].at - groupTrace.items[x].at)
SameGroup(x, y) == groupTrace.items[x].mg_id = groupTrace.items[y].mg_id
Adjacent(x, y) ==
    /\ x < y /\ SameGroup(x, y)
    /\ \A z \in ItemIds : (x < z /\ z < y) => ~SameGroup(x, z)
Settled(k) == LiveTimers(k) = {}

\* C20: two items added to one group key less than the quiet period apart
\* are flushed exactly once, in one flush that holds both; when the second is
\* added after the quiet period since the first has elapsed there are two
\* flushes, each holding exactly one of the two.
C20_QuietPeriod ==
    \A x, y \in ItemIds :
        Adjacent(x, y) =>
            /\ Cardinality(FlushesOf(x)) <= 1
            /\ Cardinality(FlushesOf(y)) <= 1
            /\ Settled(groupTrace.items[y].mg_id)
               => Cardinality(FlushesOf(x)) = 1 /\ Cardinality(FlushesOf(y)) = 1
            /\ Gap2(x, y) < QuietHalfSeconds
               => /\ FlushesOf(x) = FlushesOf(y)
                  /\ \A f \in FlushesOf(x) :
                        groupTrace.flushes[f].mg_id = groupTrace.items[x].mg_id
            /\ Gap2(x, y) > QuietHalfSeconds
               => /\ FlushesOf(x) \cap FlushesOf(y) = {}
                  /\ Cardinality(FlushesOf(x)) = 1

C20_Witness ==
    \E x, y, z \in ItemIds :
        /\ Adjacent(x, y) /\ Adjacent(y, z)
        /\ Gap2(x, y) < QuietHalfSeconds /\ Gap2(x, y) > 0
        /\ Gap2(y, z) > QuietHalfSeconds
        /\ \E f, g \in FlushIds :
              /\ f # g
              /\ groupTrace.flushes[f].files = <<x, y>>
              /\ groupTrace.flushes[g].files = <<z>>

\* The items a buffered group holds.
BufferedItems(buffer, k) ==
    IF buffer[k].present
    THEN {buffer[k].files[n] : n \in DOMAIN buffer[k].files}
    ELSE {}

\* The items of the lists handed off so far.
HandedOff(tr) ==
    UNION {{tr.flushes[f].files[n] : n \in DOMAIN tr.flushes[f].files} :
              f \in DOMAIN tr.flushes}

\* C21: a group is flushed only by the expiry of its timer, never inside the
\* step that adds an item; the flush removes the group from the buffer as it
\* hands its list off; and the list handed off never changes afterwards: an
\* item added later starts a fresh buffer and is in no list handed off before.
C21_FlushOnlyFromTimer ==
    [][ /\ Len(groupTrace'.flushes) > Len(groupTrace.flushes)
           => /\ groupTrace'.items = groupTrace.items
              /\ Len(groupTrace'.flushes) = Len(groupTrace.flushes) + 1
              /\ LET f == groupTrace'.flushes[Len(groupTrace'.flushes)]
                 IN  /\ f.task \in DOMAIN tasks
                     /\ Due(tasks[f.task])
                     /\ tasks'[f.task].state = "finalized"
                     /\ media_group_buffer[f.mg_id].present
                     /\ f.files = media_group_buffer[f.mg_id].files
                     /\ ~media_group_buffer'[f.mg_id].present
        /\ \A f \in FlushIds : groupTrace'.flushes[f] = groupTrace.flushes[f]
        /\ \A k \in GroupKeys :
              /\ BufferedItems(media_group_buffer', k)
                    \cap HandedOff(groupTrace') = {}
              /\ (Arrives(k) /\ ~media_group_buffer[k].present)
                 => media_group_buffer'[k].files
                       = <<Len(groupTrace'.items)>> ]_vars

C21_Witness ==
    \E f \in FlushIds, k \in GroupKeys :
        /\ groupTrace.flushes[f].mg_id = k
        /\ Len(groupTrace.flushes[f].files) = 2
        /\ media_group_buffer[k].present
        /\ Len(media_group_buffer[k].files) = 2
        /\ media_group_buffer[k].files[1] > groupTrace.flushes[f].files[2]

\* ---------------------------------------------- properties of the chunker
Merged == formatter.call = "merge"
Oversized(part) == TextLen(part) > MaxMessageLength

\* C22: every message built by the merge is at most MaxMessageLength long,
\* unless it consists of exactly one part that alone exceeds the limit; an
\* oversized part is never merged with another part.
C22_MergedWithinLimit ==
    Merged =>
        \A j \in DOMAIN formatter.output :
            LET m == formatter.output[j]
            IN  /\ MessageLen(m) <= MaxMessageLength
                   \/ (Len(m) = 1 /\ Oversized(m[1]))
                /\ \A n \in DOMAIN m : Oversized(m[n]) => Len(m) = 1

C22_Witness ==
    /\ Merged
    /\ Len(formatter.output) = 2
    /\ Len(formatter.output[1]) = 2
    /\ Oversized(formatter.output[2][1])

\* The parts of the messages, in order.
RECURSIVE Flatten(_)
Flatten(messages) ==
    IF messages = <<>> THEN <<>> ELSE messages[1] \o Flatten(Tail(messages))

\* C29: the merge preserves content and order: the parts of the messages,
\* read in order, are the non-empty input parts in order (so joining the
\* messages with a blank line gives the text of joining those parts with a
\* blank line); and between two consecutive parts neither of which is
\* oversized there is a message boundary exactly when appending the second to
\* the current message would exceed MaxMessageLength.
C29_MergePreserves ==
    Merged =>
        /\ Flatten(formatter.output) = SelectSeq(formatter.input, NonEmpty)
        /\ \A j \in DOMAIN formatter.output : formatter.output[j] # <<>>
        /\ \A j \in DOMAIN formatter.output :
              LET m == formatter.output[j]
              IN  /\ \A n \in 1..(Len(m) - 1) :
                        MessageLen(SubSeq(m, 1, n)) + SeparatorLen
                            + TextLen(m[n + 1]) <= MaxMessageLength
                  /\ j < Len(formatter.output)
                     => LET next == formatter.output[j + 1][1]
                        IN  (~Oversized(m[Len(m)]) /\ ~Oversized(next))
                            => MessageLen(m) + SeparatorLen + TextLen(next)
                                  > MaxMessageLength

C29_Witness ==
    /\ Merged
    /\ Len(formatter.input) = 3
    /\ formatter.input[2] = <<>>
    /\ Len(formatter.output) = 2
    /\ ~Oversized(formatter.output[1][1])
    /\ ~Oversized(formatter.output[2][1])

\* -------------------------------------------- properties of the code assets
Split == formatter.call = "file_box"

\* The lines of the chunks with their fences stripped, in order.
RECURSIVE ChunkLines(_)
ChunkLines(wrapped_parts) ==
    IF wrapped_parts = <<>> THEN <<>>
    ELSE wrapped_parts[1].code \o ChunkLines(Tail(wrapped_parts))

\* The fenced rendering of the whole code exceeds the maximum message size.
TooLong(input) ==
    WrappedLen(CreateCodeBlock(input.lines, input.lang_len))
        > DefaultMaxMessageLength

\* C23: for a code asset whose fenced rendering exceeds the maximum message
\* size, the split yields at least 2 chunks, the fenced rendering of every
\* chunk is at most the maximum message size, chunks are made of whole lines,
\* and the contents of the chunks, fences stripped and joined with newlines,
\* are the original code.
C23_SplitWithinLimit ==
    (Split /\ TooLong(formatter.input)) =>
        /\ Len(formatter.output) >= 2
        /\ \A j \in DOMAIN formatter.output :
              WrappedLen(formatter.output[j]) <= DefaultMaxMessageLength
        /\ ChunkLines(formatter.output) = formatter.input.lines

\* The lines of a chunk before _escape_code_content.
Content(wrapped) ==
    [n \in DOMAIN wrapped.code |->
        Line(wrapped.code[n].len - wrapped.code[n].slashes,
             wrapped.code[n].ticks)]

\* The least number of contiguous chunks of content length at most budget
\* that the lines can be cut into (more than Len(lines) when there is none).
RECURSIVE FewestChunks(_, _)
FewestChunks(lines, budget) ==
    IF lines = <<>> THEN 0
    ELSE LET fits == {k \in 1..Len(lines) :
                         CodeLen(SubSeq(lines, 1, k)) <= budget}
             rest(k) == FewestChunks(SubSeq(lines, k + 1, Len(lines)), budget)
         IN  IF fits = {} THEN Len(lines) + 1
             ELSE 1 + rest(CHOOSE k \in fits :
                              \A h \in fits : rest(k) <= rest(h))

\* The code is split, and each of its lines fits the budget.
Splittable(input) ==
    /\ CodeLen(input.lines) > MaxCodeSize(input.lang_len)
    /\ \A n \in DOMAIN input.lines :
          input.lines[n].len <= MaxCodeSize(input.lang_len)

\* C30: when a code asset is split, the number of chunks is the least over
\* all cuts of its lines into contiguous chunks of content length at most
\* max_code_size, and a chunk is closed only when the next line would make
\* its content longer than max_code_size.
C30_FewestChunks ==
    (Split /\ Splittable(formatter.input)) =>
        LET budget == MaxCodeSize(formatter.input.lang_len)
        IN  /\ Len(formatter.output)
                  = FewestChunks(formatter.input.lines, budget)
            /\ \A j \in 1..(Len(formatter.output) - 1) :
                  CodeLen(Append(Content(formatter.output[j]),
                                 Content(formatter.output[j + 1])[1])) > budget

\* ------------------------------------------------ properties of the fallback
RECURSIVE Concat(_)
Concat(messages) ==
    IF messages = <<>> THEN <<>> ELSE messages[1] \o Concat(Tail(messages))

\* C24: when a step of the chunking raises, format_response_for_telegram
\* returns: a non-empty list of messages and no assets, the messages in order
\* concatenating to the escaped form of the raw input, and every message of a
\* fallback of more than one message at most SafeMessageLength long.
C24_Fallback ==
    formatter.call = "fallback" =>
        LET out == formatter.output
        IN  /\ out.messages # <<>>
            /\ out.assets = <<>>
            /\ Concat(out.messages) = EscapeMarkdown(formatter.input)
            /\ Len(out.messages) > 1
               => \A j \in DOMAIN out.messages :
                     /\ out.messages[j] # <<>>
                     /\ Len(out.messages[j]) <= SafeMessageLength

C24_Witness ==
    /\ formatter.call = "fallback"
    /\ Len(formatter.output.messages) = 3
    /\ Len(Concat(formatter.output.messages)) > TextLen(formatter.input)
    /\ \E n \in DOMAIN formatter.input : formatter.input[n] \notin Reserved

\* ------------------------------------- properties of notation normalization
\* C25: every code span of the input is in the output of the normalization
\* unchanged, wherever it stands, next to or between math delimiters
\* included: the code spans of the output are those of the input, in order.
C25_CodePreserved ==
    formatter.call = "latex" =>
        SelectSeq(formatter.output, IsCode) = SelectSeq(formatter.input, IsCode)

\* ----------------------------------------------- properties of db_lock_retry
Locked(outcome) == outcome = "locked"

\* C26: db_lock_retry calls the wrapped function at most 5 times; a "database
\* is locked" error is followed by a sleep and, below 5 of them, by another
\* call; any other error is raised after the call that met it, without a
\* retry; a success is returned at once; and after 5 locked failures in a row
\* the "Database locked after 5 retries" error is raised.
C26_DbLockRetry ==
    \A p \in Procs :
        LET d == db_retry[p]
            n == Len(d.outcomes)
        IN  /\ n <= MaxDbRetries
            /\ \A k \in 1..(n - 1) : Locked(d.outcomes[k])
            /\ d.retry_count = Len(SelectSeq(d.outcomes, Locked))
            /\ d.sleeps = d.retry_count - (IF d.pc = "sleeping" THEN 1 ELSE 0)
            /\ d.pc = "in_call" => n = d.retry_count
            /\ d.pc = "sleeping" => Locked(d.outcomes[n])
            /\ d.pc = "done"
               => /\ n >= 1
                  /\ d.result = IF Locked(d.outcomes[n]) THEN "locked_out"
                                ELSE IF d.outcomes[n] = "ok" THEN "returned"
                                ELSE d.outcomes[n]
                  /\ d.result = "locked_out" <=> n = MaxDbRetries /\ d.sleeps = n
            /\ (d.pc # "done") => d.result = "none"

C26_Witness ==
    \E p, q \in Procs :
        /\ db_retry[p].result = "locked_out"
        /\ db_retry[q].result = "returned"
        /\ Len(db_retry[q].outcomes) = MaxDbRetries

\* ------------------------------------------------- properties of operation
\* C27: an exception of the wrapped handler never leaves the wrapper: the
\* result is None, with the error text sent at most once, and only when
\* notify_user is set, whether or not sending it fails; and a callback whose
\* data does not start with the required prefix is answered without the
\* handler being invoked.
C27_OperationSwallows ==
    /\ handler.raised
       => /\ handler.invoked
          /\ handler.result \in {"none", "None"}
          /\ handler.pc = "done" => handler.result = "None"
    /\ handler.notified <= 1
    /\ handler.notified = 1 => (handler.raised /\ handler.notify_user)
    /\ (handler.pc = "done" /\ handler.raised /\ handler.notify_user
          /\ (handler.event = "message" \/ handler.accessible))
       => handler.notified = 1
    /\ (handler.event = "callback" /\ handler.validate
          /\ handler.data = "other")
       => /\ ~handler.invoked
          /\ handler.pc = "done" => handler.answered = 1

C27_Witness ==
    /\ handler.pc = "done"
    /\ handler.raised
    /\ handler.event = "callback"
    /\ handler.validate /\ handler.data = "match"
    /\ handler.notified = 1
    /\ handler.answered = 0

\* ---------------------------------------------- properties of the history
\* h2 is h1 with one timestamp recorded at its end and, beyond HistoryLimit
\* entries, the oldest one dropped.
Recorded1(h1, h2) ==
    /\ h2 # <<>>
    /\ LET all == Append(h1, h2[Len(h2)])
           keep == IF Len(all) <= HistoryLimit THEN Len(all) ELSE HistoryLimit
       IN  /\ Len(h2) = keep
           /\ \A n \in 1..keep : h2[n] = all[Len(all) - keep + n]

\* C28: whatever acquires and penalties a key has seen, its history holds at
\* most 20 timestamps in non-decreasing order, newest last, they are the most
\* recent ones recorded (recording drops only the oldest), and
\* last_request_time is the last of them whenever there is one.
C28_HistoryBounded ==
    [][ \A k \in Keys :
          LET h == rl'[k].history
          IN  /\ Len(h) <= HistoryLimit
              /\ \A n \in 1..(Len(h) - 1) : h[n] <= h[n + 1]
              /\ h # <<>> => rl'[k].last_request_time = h[Len(h)]
              /\ rl'[k].last_request_time # rl[k].last_request_time
                    \/ h # rl[k].history
                 => Recorded1(rl[k].history, h) ]_vars

C28_Witness ==
    \E k \in Keys :
        /\ Len(rl[k].history) = HistoryLimit
        /\ started = MaxHistoryCalls
        /\ rl[k].backoff_until > 0
        /\ \A p \in Procs : inv[p].pc = "idle"

\* ------------------------------------- further properties of the executor
\* C31: an open circuit stays open until its cooldown is over: is_open goes
\* from true to false only at a time >= next_attempt_allowed, whatever other
\* invocations of the scope are in flight or retrying.
C31_OpenUntilCooldown ==
    [][ \A s \in Scopes :
          (cb[s].is_open /\ ~cb'[s].is_open)
             => now >= cb[s].next_attempt_allowed ]_vars

Running(p) == loop[p].pc \notin {"idle", "done"}
Ended(p) == loop[p].pc = "done"

\* C32: every invocation eventually returns or raises, whatever the wrapped
\* call does, as long as each call of it ends: the number of calls of an
\* invocation is bounded.
C32_Terminates == \A p \in Procs : Running(p) ~> Ended(p)

\* C32 amended: every invocation eventually returns or raises as long as each
\* call ends and only finitely many calls raise a retry-after signal; the
\* calls of an invocation are at most max_retries + 1 plus one for each
\* retry-after signal.
C32_TerminatesAmended ==
    /\ [](\A p \in Procs : loop[p].plain_calls <= MaxRetries(loop[p]) + 1)
    /\ \A p \in Procs :
          <>[](loop[p].pc # "ra_sleep") => (Running(p) ~> Ended(p))

C32_Witness ==
    \E p \in Procs :
        /\ Ended(p)
        /\ loop[p].signalled
        /\ loop[p].result = "error"
        /\ loop[p].plain_calls = MaxRetries(loop[p]) + 1


\* ---------------------------------------------- the stream and its messages
\* C33: when a stream none of whose channel operations failed is done, every
\* index recorded in sent_messages is an index of the final chunk list and
\* its message on the channel has the content of that segment: no message of
\* an earlier flush is left with stale content when a later chunk pass gives
\* fewer segments.
C33_NoStaleSegment ==
    LET final == FormatResponseForTelegram(session.accumulated_text)
    IN  (session.pc = "done" /\ trace.failures = 0)
        => \A i \in DOMAIN session.sent_messages :
              /\ i < Len(final)
              /\ channel[session.sent_messages[i].message_id].content
                     = final[i + 1]

\* The operations of the flushes that reached the channel for segment i.
FlushDelivered(i) ==
    SelectSeq(trace.ops, LAMBDA op : /\ op.ok /\ op.index = i
                                     /\ op.phase \in {"flushing", "final"})

FlushFailed(i) ==
    SelectSeq(trace.ops, LAMBDA op : /\ ~op.ok /\ op.index = i
                                     /\ op.kind = "edit"
                                     /\ op.phase \in {"flushing", "final"})

Artifacts(n) == <<"conversation", "page">> \o [k \in 1..n |-> "asset"]

IsPrefix(s, t) == Len(s) <= Len(t) /\ s = SubSeq(t, 1, Len(s))

\* C35: in finalization the assistant message is saved, then the web page
\* record, then every extracted asset; an edit carrying the navigation
\* keyboard is issued only when all of them are saved; and a stream one of
\* whose persistence steps failed has no keyboard edit issued and no keyboard
\* on the channel.
C35_PersistBeforeKeyboard ==
    /\ [](/\ IsPrefix(trace.persisted, Artifacts(MaxAssets))
          /\ session.stage \in {"assets", "render", "markup"}
             => IsPrefix(trace.persisted, Artifacts(session.assets))
          /\ trace.cause = "storage"
             => /\ \A n \in OpIndexes : ~trace.ops[n].keyboard
                /\ \A m \in DOMAIN channel : ~channel[m].keyboard)
    /\ [][ (Issues /\ Issued.keyboard)
           => trace.persisted = Artifacts(session.assets) ]_vars

\* The keyboard is on the last message of a stream that saved two assets.
C35_Witness ==
    /\ session.pc = "done"
    /\ session.assets = MaxAssets
    /\ trace.persisted = Artifacts(MaxAssets)
    /\ \E n \in OpIndexes : trace.ops[n].keyboard /\ trace.ops[n].ok
    /\ \E m \in DOMAIN channel : channel[m].keyboard

\* ------------------------------------------------ delivery of buffered items
\* The number of places of the handed-off lists that hold item x.
Deliveries(x) ==
    Cardinality({<<f, n>> \in FlushIds \X (1..MaxItems) :
                    /\ n \in DOMAIN groupTrace.flushes[f].files
                    /\ groupTrace.flushes[f].files[n] = x})

InOrder(files) ==
    \A m, n \in DOMAIN files : m < n => files[m] < files[n]

\* C36: every item added to a group is at all times either in the buffer of
\* its group or in exactly one handed-off list, once, and in none of another
\* group; the items of a handed-off list and of a buffer are in the order
\* they were added; an item that arrives for a group whose buffer a flush has
\* removed cancels no timer and changes no handed-off list; and, the clock
\* moving on and expired timers resuming, every item added is eventually in a
\* handed-off list.
C36_ExactlyOneFlush ==
    /\ [](\A x \in ItemIds :
             LET k == groupTrace.items[x].mg_id
             IN  /\ Deliveries(x) <= 1
                 /\ (Deliveries(x) = 0) <=> (x \in BufferedItems(media_group_buffer, k))
                 /\ \A f \in FlushesOf(x) : groupTrace.flushes[f].mg_id = k)
    /\ [](/\ \A f \in FlushIds : InOrder(groupTrace.flushes[f].files)
          /\ \A k \in GroupKeys : InOrder(media_group_buffer[k].files))
    /\ [][ \A k \in GroupKeys :
              (Arrives(k) /\ ~media_group_buffer[k].present)
              => /\ \A t \in DOMAIN tasks : tasks'[t] = tasks[t]
                 /\ groupTrace'.flushes = groupTrace.flushes ]_vars
    /\ \A x \in 1..MaxItems : (x \in ItemIds) ~> (Deliveries(x) = 1)

\* A group was flushed with two items, and a third item of the same group
\* that arrived after the flush was flushed on its own.
C36_Witness ==
    \E f, g \in FlushIds :
        /\ f < g
        /\ groupTrace.flushes[f].mg_id = groupTrace.flushes[g].mg_id
        /\ Len(groupTrace.flushes[f].files) = 2
        /\ Len(groupTrace.flushes[g].files) = 1
        /\ \A x \in ItemIds : Deliveries(x) = 1
        /\ Len(groupTrace.items) = MaxItems

\* ------------------------------------------------------ pending attachments
\* The flow of the user ends before it has reached generation.
EndsEarly(u) == flow[u].pc \in {"topic", "load"} /\ flow'[u].pc = "idle"

\* C37: pending attachments are consumed only by a request that reaches
\* generation: when a flow ends early - the topic could not be created, or
\* the topic has no conversation - the attachments that were pending for the
\* user when it began are queued again, ahead of what was queued meanwhile.
C37_PendingKept ==
    [][ \A u \in Users :
          EndsEarly(u)
          => IsPrefix(flow[u].pending, pending_attachments'[u]) ]_vars

\* ---------------------------------------------------------- assets of a page
\* C38: saving the assets of one page never changes the assets of another:
\* at all times load_assets(p) is, for every page p, exactly the assets saved
\* for p so far, with their bytes.
C38_AssetsIsolated ==
    \A p \in DOMAIN web_pages : LoadAssets(p) = web_pages[p]

\* ------------------------------------------------------- menus of a message
\* C39: whatever the interleaving of the menus of several messages of a
\* conversation, "close" or "back" on a message leaves the message in place
\* with exactly the keyboard it had when its menu was opened.
C39_MenuRoundTrip ==
    [][ \A m \in Messages :
          menuTrace'.last = <<"close", m>>
          => /\ menu_message'[m].exists
             /\ menu_message'[m].reply_markup = menuTrace.opened[m] ]_vars

\* ------------------------------------------------- side effects of a callback
\* C40: for one callback query the handler's side effect happens at most
\* once: at most one document is sent for an asset-download callback and the
\* setting is written at most once for a "pick" callback, also when a later
\* step of the handler fails.
C40_AtMostOnce == callback.documents <= 1 /\ callback.updates <= 1

=========================================================================
